---- MODULE Spec2Model ----
(***************************************************************************)
(* Model of the goodreads_stats genre-enrichment core:                     *)
(*   - the local bounded pool (genres/pipeline/enricher.py and             *)
(*     genres/async_genre_enricher.py with genres/async_pipeline.py),      *)
(*   - the chunked orchestrator (cdk/lambda_code/orchestrator),            *)
(*   - the aggregator and its status record (cdk/lambda_code/aggregator).  *)
(* Python strings are tuples of one-character strings, so that formatting  *)
(* (f"{title}-{author}"), prefix stripping and case folding are computed.  *)
(* An optional string that is None or "" (both falsy in Python) is <<>>.   *)
(* Python dicts are functions whose DOMAIN is the set of keys present.     *)
(***************************************************************************)
EXTENDS Naturals, Integers, Sequences, FiniteSets, TLC

VARIABLES
    \* ---- local pool: AsyncGenreEnricher.enrich_books_batch
    books,          \* the batch handed to enrich_books_batch
    task,           \* per book: "waiting" (for the semaphore), "running", "done"
    sem,            \* free slots of asyncio.Semaphore(max_concurrent)
    enriched,       \* per book: the EnrichedBook its task returned (Pending before)
    order,          \* indices of the tasks in the order in which they completed
    returned,       \* the list enrich_books_batch returned (Pending before)
    enhanced_books, \* AsyncBookPipeline: zip(books, enriched_data) (Pending before)
    enricher,       \* AsyncGenreEnricher: max_concurrent and, per book, what its
                    \* two fetches have come back with (Pending before)
    \* ---- orchestrator: process_csv_pipeline
    orch,           \* record of the orchestrator's locals, see OrchInit
    \* ---- aggregator: S3 objects of one job and the running invocations
    s3,             \* record of the job's S3 objects, see AggInit
    inv,            \* per invocation slot: its kind, position and locals
    now,            \* the wall clock, in minutes
    hist,           \* what the job looked like when it was handed over
    \* ---- aggregator: one call of merge_enriched_data
    merge,          \* its two arguments and its return value (Pending before)
    \* ---- api_caller: one RateLimiter and the threads calling wait()
    limiter,        \* record of the limiter's fields, its callers and the clock
    \* ---- one synchronous call in progress (APICaller.get, a fetcher, the
    \* normalizer): its arguments, its position, what it did, its result
    call

poolVars == <<books, task, sem, enriched, order, returned, enhanced_books, enricher>>
aggVars == <<s3, inv, now, hist, merge>>
callerVars == <<limiter, call>>
vars == <<books, task, sem, enriched, order, returned, enhanced_books, enricher, orch,
          s3, inv, now, hist, merge, limiter, call>>

\* A value not yet produced is <<>>; a value x that has been produced is <<x>>.
Pending == <<>>
Some(x) == <<x>>

\* ------------------------------------------------------------------------
\* Bounds of the model.
MaxBooks == 3
MaxConcurrent == 2
MaxChunkSize == 3
MaxInvocations == 2
MaxOriginal == 2
MaxTicks == 2

\* ------------------------------------------------------------------------
\* Strings.

UpperChars == {"F", "N", "S", "T", "Y"}
LowerChars == {"a", "b", "c", "e", "f", "i", "k", "m", "n", "o", "r", "s", "t", "u", "w", "x", "y"}
DigitChars == {"0", "1", "2", "3", "4", "5", "6", "7", "8", "9"}
WhiteChars == {" ", "\t"}

\* str.lower() on one character
LowerChar(c) ==
    CASE c = "F" -> "f" [] c = "N" -> "n" [] c = "S" -> "s" [] c = "T" -> "t"
      [] c = "Y" -> "y" [] OTHER -> c

\* ord(c)
Ord(c) ==
    CASE c = "\t" -> 9 [] c = " " -> 32 [] c = "-" -> 45 [] c = "1" -> 49 [] c = "2" -> 50
      [] c = ":" -> 58 [] c = "=" -> 61 [] c = "_" -> 95
      [] c = "F" -> 70 [] c = "N" -> 78 [] c = "S" -> 83 [] c = "T" -> 84 [] c = "Y" -> 89
      [] c = "a" -> 97 [] c = "b" -> 98 [] c = "c" -> 99 [] c = "e" -> 101
      [] c = "f" -> 102 [] c = "i" -> 105 [] c = "k" -> 107 [] c = "m" -> 109
      [] c = "n" -> 110 [] c = "o" -> 111 [] c = "r" -> 114 [] c = "s" -> 115
      [] c = "t" -> 116 [] c = "u" -> 117 [] c = "w" -> 119 [] c = "x" -> 120
      [] c = "y" -> 121

Lower(s) == [i \in DOMAIN s |-> LowerChar(s[i])]

RECURSIVE LStripChars(_, _)
LStripChars(s, cs) ==
    IF s # <<>> /\ Head(s) \in cs THEN LStripChars(Tail(s), cs) ELSE s

RECURSIVE RStripChars(_, _)
RStripChars(s, cs) ==
    IF s # <<>> /\ s[Len(s)] \in cs THEN RStripChars(SubSeq(s, 1, Len(s) - 1), cs) ELSE s

\* str.strip()
Strip(s) == RStripChars(LStripChars(s, WhiteChars), WhiteChars)

StartsWith(s, p) == Len(s) >= Len(p) /\ SubSeq(s, 1, Len(p)) = p
EndsWith(s, p) == Len(s) >= Len(p) /\ SubSeq(s, Len(s) - Len(p) + 1, Len(s)) = p

\* str.isdigit(): non-empty and every character a digit
IsDigit(s) == s # <<>> /\ \A i \in DOMAIN s : s[i] \in DigitChars

\* str.istitle(): at least one cased character, an uppercase character only
\* after an uncased one and a lowercase character only after a cased one
IsCased(c) == c \in UpperChars \cup LowerChars
IsTitle(s) ==
    /\ \E i \in DOMAIN s : IsCased(s[i])
    /\ \A i \in DOMAIN s :
          LET prevCased == i > 1 /\ IsCased(s[i - 1])
          IN  /\ (s[i] \in UpperChars => ~prevCased)
              /\ (s[i] \in LowerChars => prevCased)

\* s < t in Python's string order (code points, a proper prefix first)
RECURSIVE StrLess(_, _)
StrLess(s, t) ==
    IF t = <<>> THEN FALSE
    ELSE IF s = <<>> THEN TRUE
    ELSE IF Ord(Head(s)) # Ord(Head(t)) THEN Ord(Head(s)) < Ord(Head(t))
    ELSE StrLess(Tail(s), Tail(t))

\* sorted(list(S)) for a set S of strings
RECURSIVE Sorted(_)
Sorted(S) ==
    IF S = {} THEN <<>>
    ELSE LET m == CHOOSE x \in S : \A y \in S \ {x} : StrLess(x, y)
         IN  <<m>> \o Sorted(S \ {m})

\* ------------------------------------------------------------------------
\* genres/genre_merger.py

prefixes_to_remove == << <<"n", "y", "t", ":">>,
                         <<"N", "e", "w", " ", "Y", "o", "r", "k", " ", "T", "i", "m", "e", "s">> >>

CenturySuffix == <<" ", "c", "e", "n", "t", "u", "r", "y">>

\* the loop "for prefix in prefixes_to_remove" from prefix number k on
RECURSIVE RemovePrefixes(_, _)
RemovePrefixes(clean, k) ==
    IF k > Len(prefixes_to_remove) THEN clean
    ELSE IF StartsWith(clean, prefixes_to_remove[k])
         THEN RemovePrefixes(
                  LStripChars(
                      Strip(SubSeq(clean, Len(prefixes_to_remove[k]) + 1, Len(clean))),
                      {"=", ":", "-", " "}),
                  k + 1)
         ELSE RemovePrefixes(clean, k + 1)

\* the iteration without the preference for title case: the rendering seen
\* first is always kept
MergeStepKeepingFirst(normalized_genres, genre) ==
    IF Strip(genre) = <<>> THEN normalized_genres
    ELSE LET clean_genre == RemovePrefixes(Strip(genre), 1)
         IN  IF Len(clean_genre) < 2 THEN normalized_genres
             ELSE IF IsDigit(clean_genre) \/ EndsWith(clean_genre, CenturySuffix)
                  THEN normalized_genres
             ELSE IF \E e \in normalized_genres : Lower(e) = Lower(clean_genre)
                  THEN normalized_genres
                  ELSE normalized_genres \cup {clean_genre}

\* one iteration of "for genre in all_genres" on the set kept so far
MergeStep(normalized_genres, genre) ==
    IF Strip(genre) = <<>> THEN normalized_genres
    ELSE LET clean_genre == RemovePrefixes(Strip(genre), 1)
         IN  IF Len(clean_genre) < 2 THEN normalized_genres
             ELSE IF IsDigit(clean_genre) \/ EndsWith(clean_genre, CenturySuffix)
                  THEN normalized_genres
             ELSE LET same == {e \in normalized_genres : Lower(e) = Lower(clean_genre)}
                  IN  IF same = {} THEN normalized_genres \cup {clean_genre}
                      ELSE LET existing_genre == CHOOSE e \in same : TRUE
                           IN  IF IsTitle(clean_genre) /\ ~IsTitle(existing_genre)
                               THEN (normalized_genres \ {existing_genre}) \cup {clean_genre}
                               ELSE normalized_genres

RECURSIVE MergeLoop(_, _)
MergeLoop(normalized_genres, all_genres) ==
    IF all_genres = <<>> THEN normalized_genres
    ELSE MergeLoop(MergeStep(normalized_genres, Head(all_genres)), Tail(all_genres))

merge_and_normalize(google_genres, openlib_genres) ==
    Sorted(MergeLoop({}, google_genres \o openlib_genres))

\* ------------------------------------------------------------------------
\* genres/models/book.py

BookInfo(goodreads_id, title, author, isbn13, isbn) ==
    [goodreads_id |-> goodreads_id, title |-> title, author |-> author,
     isbn13 |-> isbn13, isbn |-> isbn]

\* The books of the model. BookTwo has no goodreads_id.
BookOne == BookInfo(<<"1">>, <<"a">>, <<"x">>, <<"1", "1">>, <<"1">>)
BookTwo == BookInfo(<<>>, <<"b">>, <<"y">>, <<>>, <<"2">>)
BookThree == BookInfo(<<"2">>, <<"c">>, <<"x">>, <<>>, <<>>)
Catalog == {BookOne, BookTwo, BookThree}

BookLists(n) == UNION {[1..k -> Catalog] : k \in 0..n}

\* EnrichedBook(input_info=book) with its defaults
EnrichedBook(book) ==
    [input_info |-> book, google_response |-> FALSE, openlib_response |-> FALSE,
     processed_google_genres |-> <<>>, processed_openlib_genres |-> <<>>,
     final_genres |-> <<>>]

\* EnrichedBook.get_success_status
get_success_status(eb) == Len(eb.final_genres) > 0

\* ------------------------------------------------------------------------
\* The external sources: what a fetch followed by its processor can yield
\* for a book. ok = FALSE is a fetch that returned None (non-200, no items,
\* an exception caught inside the fetcher).

Fi == <<"F", "i">>
fi == <<"f", "i">>
Sf == <<"S", "f">>
NytFi == <<"n", "y", "t", ":", "F", "i">>
Num == <<"1", "2">>

GoogleCategories(book) ==
    CASE book.title = <<"a">> -> <<Fi>>
      [] book.title = <<"b">> -> <<NytFi>>
      [] OTHER -> <<Num>>

OpenLibSubjects(book) ==
    CASE book.title = <<"a">> -> <<fi, Sf>>
      [] book.title = <<"b">> -> <<>>
      [] OTHER -> <<Sf>>

NoData == [ok |-> FALSE, genres |-> <<>>]

\* fetch_google_data_async followed by process_google_response
GoogleOutcomes(book) == {NoData, [ok |-> TRUE, genres |-> GoogleCategories(book)]}

\* fetch_openlibrary_data_async followed by process_open_library_response
OpenLibOutcomes(book) == {NoData, [ok |-> TRUE, genres |-> OpenLibSubjects(book)]}

\* ------------------------------------------------------------------------
\* genres/pipeline/enricher.py and genres/async_genre_enricher.py:
\* AsyncGenreEnricher

EnrichRequiringBothSources(book, google, openlib) ==
    LET eb == EnrichedBook(book)
        g == IF google.ok THEN google.genres ELSE eb.processed_google_genres
        o == IF openlib.ok THEN openlib.genres ELSE eb.processed_openlib_genres
    IN  [eb EXCEPT !.google_response = google.ok,
                   !.openlib_response = openlib.ok,
                   !.processed_google_genres = g,
                   !.processed_openlib_genres = o,
                   !.final_genres = IF google.ok /\ openlib.ok
                                    THEN merge_and_normalize(g, o) ELSE <<>>]

\* the body of enrich_book_async after both fetches have come back
enrich_book_async(book, google, openlib) ==
    LET eb == EnrichedBook(book)
        g == IF google.ok THEN google.genres ELSE eb.processed_google_genres
        o == IF openlib.ok THEN openlib.genres ELSE eb.processed_openlib_genres
    IN  [eb EXCEPT !.google_response = google.ok,
                   !.openlib_response = openlib.ok,
                   !.processed_google_genres = g,
                   !.processed_openlib_genres = o,
                   !.final_genres = merge_and_normalize(g, o)]

\* asyncio.as_completed: the results in the order in which the tasks completed
AsCompletedResults(results, completed) ==
    [k \in 1..Len(completed) |-> results[completed[k]][1]]

\* a gather that hands the results back as they arrive
GatherInCompletionOrder(results, completed) ==
    [k \in 1..Len(completed) |-> results[completed[k]][1]]

\* asyncio.gather(*tasks): the results in the order of the tasks
GatherResults(results, completed) ==
    [i \in 1..Len(completed) |-> results[i][1]]

\* genres/async_pipeline.py: _transfer_enriched_genres
transfer_enriched_genres(original_book, enriched_data) ==
    [goodreads_id |-> original_book.goodreads_id,
     title |-> original_book.title,
     author |-> original_book.author,
     isbn |-> original_book.isbn,
     isbn13 |-> original_book.isbn13,
     final_genres |-> enriched_data.final_genres,
     genre_enrichment_success |-> Len(enriched_data.final_genres) > 0]

\* zip(books, enriched_data)
Zip(bs, es) ==
    LET n == IF Len(bs) < Len(es) THEN Len(bs) ELSE Len(es)
    IN  [i \in 1..n |-> transfer_enriched_genres(bs[i], es[i])]

AllDone == \A i \in DOMAIN books : task[i] = "done"

PoolInit ==
    /\ books \in BookLists(MaxBooks)
    /\ task = [i \in DOMAIN books |-> "waiting"]
    /\ sem = MaxConcurrent
    /\ enriched = [i \in DOMAIN books |-> Pending]
    /\ order = <<>>
    /\ returned = Pending
    /\ enhanced_books = Pending
    /\ enricher = [max_concurrent |-> MaxConcurrent, fetches |-> <<>>]

PoolIdle ==
    /\ books = <<>>
    /\ task = <<>>
    /\ sem = MaxConcurrent
    /\ enriched = <<>>
    /\ order = <<>>
    /\ returned = Pending
    /\ enhanced_books = Pending
    /\ enricher = [max_concurrent |-> MaxConcurrent, fetches |-> <<>>]

AcquireWithoutSemaphore(i) ==
    /\ task[i] = "waiting"
    /\ sem' = sem - 1
    /\ task' = [task EXCEPT ![i] = "running"]
    /\ UNCHANGED <<books, enriched, order, returned, enhanced_books, enricher>>

\* "async with self.semaphore": a waiting task takes a free slot
Acquire(i) ==
    /\ task[i] = "waiting"
    /\ sem > 0
    /\ sem' = sem - 1
    /\ task' = [task EXCEPT ![i] = "running"]
    /\ UNCHANGED <<books, enriched, order, returned, enhanced_books, enricher>>

\* the rest of enrich_book_async: both fetches, the merge, the release
Finish(i) ==
    /\ task[i] = "running"
    /\ \E google \in GoogleOutcomes(books[i]), openlib \in OpenLibOutcomes(books[i]) :
          enriched' = [enriched EXCEPT ![i] = Some(enrich_book_async(books[i], google, openlib))]
    /\ task' = [task EXCEPT ![i] = "done"]
    /\ sem' = sem + 1
    /\ order' = Append(order, i)
    /\ UNCHANGED <<books, returned, enhanced_books, enricher>>

\* genres/pipeline/enricher.py: enrich_books_batch returns
ReturnGathered ==
    /\ AllDone
    /\ returned = Pending
    /\ returned' = Some(GatherResults(enriched, order))
    /\ UNCHANGED <<books, task, sem, enriched, order, enhanced_books, enricher>>

\* genres/async_genre_enricher.py: enrich_books_batch returns
ReturnAsCompleted ==
    /\ AllDone
    /\ returned = Pending
    /\ returned' = Some(AsCompletedResults(enriched, order))
    /\ UNCHANGED <<books, task, sem, enriched, order, enhanced_books, enricher>>

\* genres/async_pipeline.py: the transfer loop after enrich_books_batch
TransferEnriched ==
    /\ returned # Pending
    /\ enhanced_books = Pending
    /\ enhanced_books' = Some(Zip(books, returned[1]))
    /\ UNCHANGED <<books, task, sem, enriched, order, returned, enricher>>


\* ------------------------------------------------------------------------
\* genres/pipeline/enricher.py, one await at a time: the two fetches of a
\* book come back one after the other, in either order, while its task
\* holds the semaphore.

MaxBatch == 2

\* what the HTTP exchange of one fetch can end in: a 200 with data, another
\* status, the session's ClientTimeout, any other exception
FetchEvents == {"data", "non200", "timeout", "exception"}

\* fetch_google_data_async followed by process_google_response; the whole
\* body is inside try/except Exception, so the coroutine never raises
fetch_google_data_async(book, event) ==
    [raised |-> FALSE,
     value |-> IF event = "data" THEN [ok |-> TRUE, genres |-> GoogleCategories(book)]
               ELSE NoData]

FetchOpenLibraryWithoutExcept(book, event) ==
    [raised |-> event \in {"timeout", "exception"},
     value |-> IF event = "data" THEN [ok |-> TRUE, genres |-> OpenLibSubjects(book)]
               ELSE NoData]

\* fetch_openlibrary_data_async followed by process_open_library_response;
\* again everything is inside try/except Exception
fetch_openlibrary_data_async(book, event) ==
    [raised |-> FALSE,
     value |-> IF event = "data" THEN [ok |-> TRUE, genres |-> OpenLibSubjects(book)]
               ELSE NoData]

\* enrich_book_async on every book of the catalogue and every pair of fetch
\* results, evaluated once
EnrichedBooks ==
    [book \in Catalog |->
        [google \in GoogleOutcomes(book) |->
            [openlib \in OpenLibOutcomes(book) |->
                enrich_book_async(book, google, openlib)]]]

\* "google_data, (ol_edition_data, ol_work_data) = await asyncio.gather(...,
\* return_exceptions=True)" and what follows it: an exception object in the
\* first place is logged, one in the second place cannot be unpacked
GatherAndMerge(book, google, openlib) ==
    IF openlib.raised
    THEN [raised |-> TRUE, value |-> EnrichedBook(book)]
    ELSE [raised |-> FALSE,
          value |-> EnrichedBooks[book][IF google.raised THEN NoData ELSE google.value]
                                       [openlib.value]]

NoFetches == [google |-> Pending, openlib |-> Pending]

\* AsyncGenreEnricher(max_concurrent) and the tasks of enrich_books_batch
EnrichInit ==
    /\ books \in BookLists(MaxBatch)
    /\ task = [i \in DOMAIN books |-> "waiting"]
    /\ \E max_concurrent \in 1..MaxConcurrent :
          /\ sem = max_concurrent
          /\ enricher = [max_concurrent |-> max_concurrent,
                         fetches |-> [i \in DOMAIN books |-> NoFetches]]
    /\ enriched = [i \in DOMAIN books |-> Pending]
    /\ order = <<>>
    /\ returned = Pending
    /\ enhanced_books = Pending

\* google_task comes back
FetchGoogle(i) ==
    /\ task[i] = "running"
    /\ enricher.fetches[i].google = Pending
    /\ \E event \in FetchEvents :
          enricher' = [enricher EXCEPT !.fetches[i].google =
                          Some([event |-> event,
                                result |-> fetch_google_data_async(books[i], event)])]
    /\ UNCHANGED <<books, task, sem, enriched, order, returned, enhanced_books>>

\* openlibrary_task comes back
FetchOpenLibrary(i) ==
    /\ task[i] = "running"
    /\ enricher.fetches[i].openlib = Pending
    /\ \E event \in FetchEvents :
          enricher' = [enricher EXCEPT !.fetches[i].openlib =
                          Some([event |-> event,
                                result |-> fetch_openlibrary_data_async(books[i], event)])]
    /\ UNCHANGED <<books, task, sem, enriched, order, returned, enhanced_books>>

\* the gather of the two fetches returns; processing, merge, and the end of
\* "async with self.semaphore", which releases the slot on return and on raise
MergeAndRelease(i) ==
    /\ task[i] = "running"
    /\ enricher.fetches[i].google # Pending
    /\ enricher.fetches[i].openlib # Pending
    /\ LET r == GatherAndMerge(books[i], enricher.fetches[i].google[1].result,
                               enricher.fetches[i].openlib[1].result)
       IN  IF r.raised
           THEN /\ task' = [task EXCEPT ![i] = "raised"]
                /\ UNCHANGED enriched
           ELSE /\ task' = [task EXCEPT ![i] = "done"]
                /\ enriched' = [enriched EXCEPT ![i] = Some(r.value)]
    /\ sem' = sem + 1
    /\ order' = Append(order, i)
    /\ UNCHANGED <<books, returned, enhanced_books, enricher>>

\* ------------------------------------------------------------------------
\* Python values shared by the two Lambda models.

None == <<"None">>

\* dict.get(key, default)
Get(d, key, default) == IF key \in DOMAIN d THEN d[key] ELSE default

\* d[key] = value on a dict
Put(d, key, value) == [k \in DOMAIN d \cup {key} |-> IF k = key THEN value ELSE d[k]]

EmptyDict == [k \in {} |-> None]

\* f"{title}-{author}"
TitleAuthor(title, author) == title \o <<"-">> \o author

\* book.goodreads_id or f"{book.title}-{book.author}"
CorrelationKey(book) ==
    IF book.goodreads_id # <<>> THEN book.goodreads_id
    ELSE TitleAuthor(book.title, book.author)

\* ------------------------------------------------------------------------
\* cdk/lambda_code/book_processor/lambda_function.py

\* enrich_single_book: raised = TRUE when the enricher raises inside the try
enrich_single_book(book_data, raised, google, openlib) ==
    IF raised
    THEN [statusCode |-> 500,
          body |-> [isbn |-> book_data.isbn, title |-> book_data.title,
                    author |-> book_data.author, final_genres |-> <<>>,
                    thumbnail_url |-> None,
                    genre_enrichment_success |-> FALSE,
                    error |-> <<"enrichment error">>]]
    ELSE LET enriched_book == enrich_book_async(book_data, google, openlib)
         IN  [statusCode |-> 200,
              body |-> [isbn |-> enriched_book.input_info.isbn,
                        title |-> enriched_book.input_info.title,
                        author |-> enriched_book.input_info.author,
                        final_genres |-> enriched_book.final_genres,
                        thumbnail_url |-> None,
                        genre_enrichment_success |-> Len(enriched_book.final_genres) > 0]]

\* What the book processor can answer for a book: both sources answered,
\* neither answered, or the enricher raised.
ProcessorResponses(book) ==
    {enrich_single_book(book, FALSE, google, openlib) :
        google \in GoogleOutcomes(book), openlib \in OpenLibOutcomes(book)}
    \cup {enrich_single_book(book, TRUE, NoData, NoData)}

\* ------------------------------------------------------------------------
\* cdk/lambda_code/orchestrator/lambda_function.py

\* What lambda_client.invoke can do for one book: raise (timeout, transport
\* error), hand back a payload that json.loads rejects, or hand back a JSON
\* object: a Lambda-level error {"errorMessage": ...} (the function timed out
\* or crashed) or the book processor's own response.
LambdaError == [errorMessage |-> <<"Task timed out">>]

LambdaOutcomes(book) ==
    {[kind |-> "raise"], [kind |-> "unparsable"]}
    \cup {[kind |-> "payload", payload |-> r] : r \in ProcessorResponses(book) \cup {LambdaError}}

\* the try block of invoke_book_processor_with_fallback raises
InvocationFailed(outcome) ==
    \/ outcome.kind \in {"raise", "unparsable"}
    \/ outcome.kind = "payload" /\ "errorMessage" \in DOMAIN outcome.payload

\* str(e) of the exception the except clause sees
ExceptionText(outcome) ==
    CASE outcome.kind = "raise" -> "invoke raised"
      [] outcome.kind = "unparsable" -> "JSONDecodeError"
      [] OTHER -> "Lambda error: Task timed out"

FailureRecord(book, prefix, text) ==
    [book_id |-> CorrelationKey(book),
     title |-> book.title,
     author |-> book.author,
     success |-> FALSE,
     final_genres |-> <<>>,
     thumbnail_url |-> None,
     genre_enrichment_success |-> FALSE,
     error_message |-> <<prefix, text>>,
     processing_logs |-> <<text>>]

\* an invocation wrapper that does not look for "errorMessage" in the payload
InvokeWithoutErrorMessageCheck(book, outcome) ==
    IF outcome.kind \in {"raise", "unparsable"}
    THEN [raised |-> FALSE,
          value |-> FailureRecord(book, "Invocation failed", ExceptionText(outcome))]
    ELSE [raised |-> FALSE, value |-> outcome.payload]

\* invoke_book_processor_with_fallback: the awaited value. raised = TRUE would
\* be an exception leaving the coroutine; the except clause returns a record.
invoke_book_processor_with_fallback(book, outcome) ==
    IF InvocationFailed(outcome)
    THEN [raised |-> FALSE,
          value |-> FailureRecord(book, "Invocation failed", ExceptionText(outcome))]
    ELSE [raised |-> FALSE, value |-> outcome.payload]

\* process_chunk_simultaneously: gather(*tasks, return_exceptions=True), then
\* the conversion of exceptions to failed results; chunk and outcomes are
\* indexed alike
process_chunk_simultaneously(chunk, outcomes) ==
    LET results == [i \in DOMAIN chunk |->
                        invoke_book_processor_with_fallback(chunk[i], outcomes[i])]
    IN  [i \in DOMAIN chunk |->
            IF results[i].raised
            THEN FailureRecord(chunk[i], "Lambda invocation failed", results[i].value)
            ELSE results[i].value]

\* result.get('book_id', f"{result.get('title', '')}-{result.get('author', '')}")
ResultKey(result) ==
    Get(result, "book_id",
        TitleAuthor(Get(result, "title", <<>>), Get(result, "author", <<>>)))

\* a map that keeps the first result stored under a key
KeepFirst(enriched_map, book_id, result) ==
    IF book_id \in DOMAIN enriched_map THEN enriched_map
    ELSE Put(enriched_map, book_id, result)

\* enriched_map[book_id] = result
StoreResult(enriched_map, book_id, result) == Put(enriched_map, book_id, result)

\* the loop building enriched_map in create_final_dashboard_json
RECURSIVE EnrichedMap(_, _)
EnrichedMap(enriched_map, enriched_results) ==
    IF enriched_results = <<>> THEN enriched_map
    ELSE LET result == Head(enriched_results)
         IN  EnrichedMap(StoreResult(enriched_map, ResultKey(result), result),
                         Tail(enriched_results))

\* one combined_book of create_final_dashboard_json
CombinedBook(original_book, enriched_map) ==
    LET book_id == CorrelationKey(original_book)
        enriched_data == Get(enriched_map, book_id, EmptyDict)
    IN  [goodreads_id |-> original_book.goodreads_id,
         title |-> original_book.title,
         author |-> original_book.author,
         isbn |-> original_book.isbn,
         isbn13 |-> original_book.isbn13,
         final_genres |-> Get(enriched_data, "final_genres", <<>>),
         thumbnail_url |-> Get(enriched_data, "thumbnail_url", None),
         genre_enrichment_success |-> Get(enriched_data, "genre_enrichment_success", FALSE),
         processing_logs |-> Get(enriched_data, "processing_logs", <<>>),
         error_message |-> Get(enriched_data, "error_message", None)]

create_final_dashboard_json(enriched_results, original_books) ==
    LET enriched_map == EnrichedMap(EmptyDict, enriched_results)
        final_books == [i \in DOMAIN original_books |->
                            CombinedBook(original_books[i], enriched_map)]
    IN  [metadata |->
            [total_books |-> Len(final_books),
             successful_enrichments |->
                 Cardinality({i \in DOMAIN final_books : final_books[i].genre_enrichment_success}),
             failed_enrichments |->
                 Cardinality({i \in DOMAIN final_books : ~final_books[i].genre_enrichment_success})],
         books |-> final_books]

\* math.ceil(len(book_infos) / CHUNK_SIZE)
TotalChunks(n, chunk_size) == (n + chunk_size - 1) \div chunk_size

Min(a, b) == IF a < b THEN a ELSE b

\* the 1-based indices of chunk number chunk_index (0-based)
ChunkStart(chunk_index, chunk_size) == chunk_index * chunk_size
ChunkEnd(chunk_index, chunk_size, n) == Min(ChunkStart(chunk_index, chunk_size) + chunk_size, n)
ChunkIndices(chunk_index, chunk_size, n) ==
    (ChunkStart(chunk_index, chunk_size) + 1)..ChunkEnd(chunk_index, chunk_size, n)

\* a collection step that keeps only the latest chunk
KeepLastChunk(all_results, chunk_results) == chunk_results

\* all_results.extend(chunk_results)
Extend(all_results, chunk_results) == all_results \o chunk_results

\* len([r for r in results if r.get('success', True)])
SuccessfulCount(results) ==
    Cardinality({i \in DOMAIN results : Get(results[i], "success", TRUE)})

\* orch.dashboard is data/{job_id}.json and orch.job_status is
\* status/{job_id}.json, the two objects of the job a reader can get;
\* process_csv_pipeline issues put_object on the first one only.

OrchInit ==
    \E bs \in BookLists(MaxBooks), cs \in 1..MaxChunkSize :
        orch = [book_infos |-> bs, chunk_size |-> cs, pc |-> "loop", chunk_index |-> 0,
                launched |-> {}, outcomes |-> [i \in DOMAIN bs |-> Pending],
                all_results |-> <<>>, dashboard |-> Pending, result |-> Pending,
                job_status |-> Pending]

OrchIdle ==
    orch = [book_infos |-> <<>>, chunk_size |-> 1, pc |-> "idle", chunk_index |-> 0,
            launched |-> {}, outcomes |-> <<>>,
            all_results |-> <<>>, dashboard |-> Pending, result |-> Pending,
            job_status |-> Pending]

\* a dispatch that creates the tasks of every remaining book at once
OrchLaunchEverything ==
    /\ orch.pc = "loop"
    /\ orch.chunk_index < TotalChunks(Len(orch.book_infos), orch.chunk_size)
    /\ orch' = [orch EXCEPT
                  !.pc = "gather",
                  !.launched = DOMAIN orch.book_infos]
    /\ UNCHANGED <<poolVars, aggVars, callerVars>>

\* process_chunk_simultaneously creates the tasks of the next chunk
OrchLaunchChunk ==
    /\ orch.pc = "loop"
    /\ orch.chunk_index < TotalChunks(Len(orch.book_infos), orch.chunk_size)
    /\ orch' = [orch EXCEPT
                  !.pc = "gather",
                  !.launched = orch.launched \cup
                      ChunkIndices(orch.chunk_index, orch.chunk_size, Len(orch.book_infos))]
    /\ UNCHANGED <<poolVars, aggVars, callerVars>>

\* one invocation of the chunk in flight comes back
OrchInvocationEnds(i) ==
    /\ orch.pc = "gather"
    /\ i \in ChunkIndices(orch.chunk_index, orch.chunk_size, Len(orch.book_infos))
    /\ orch.outcomes[i] = Pending
    /\ \E outcome \in LambdaOutcomes(orch.book_infos[i]) :
          orch' = [orch EXCEPT !.outcomes[i] = Some(outcome)]
    /\ UNCHANGED <<poolVars, aggVars, callerVars>>

\* a chunk collection that gives the job up when a member of the chunk failed
OrchChunkDoneCancelling ==
    /\ orch.pc = "gather"
    /\ LET idx == ChunkIndices(orch.chunk_index, orch.chunk_size, Len(orch.book_infos))
           lo == ChunkStart(orch.chunk_index, orch.chunk_size)
           hi == ChunkEnd(orch.chunk_index, orch.chunk_size, Len(orch.book_infos))
           chunk == [k \in 1..(hi - lo) |-> orch.book_infos[lo + k]]
           outs == [k \in 1..(hi - lo) |-> orch.outcomes[lo + k][1]]
           all_results == Extend(orch.all_results, process_chunk_simultaneously(chunk, outs))
       IN  /\ \A i \in idx : orch.outcomes[i] # Pending
           /\ orch' = IF \E k \in DOMAIN outs : InvocationFailed(outs[k])
                      THEN [orch EXCEPT
                              !.pc = "done",
                              !.all_results = all_results,
                              !.dashboard = Some(create_final_dashboard_json(
                                                     all_results, orch.book_infos)),
                              !.result = Some([status |-> "error"])]
                      ELSE [orch EXCEPT
                              !.pc = "loop",
                              !.chunk_index = orch.chunk_index + 1,
                              !.all_results = all_results]
    /\ UNCHANGED <<poolVars, aggVars, callerVars>>

\* an invocation without a time limit: the book processor of BookThree hangs
\* and its invocation never comes back
OrchInvocationWithoutTimeout(i) ==
    /\ orch.pc = "gather"
    /\ i \in ChunkIndices(orch.chunk_index, orch.chunk_size, Len(orch.book_infos))
    /\ orch.outcomes[i] = Pending
    /\ orch.book_infos[i] # BookThree
    /\ orch' = [orch EXCEPT !.outcomes[i] = Some([kind |-> "payload", payload |-> LambdaError])]
    /\ UNCHANGED <<poolVars, aggVars, callerVars>>

\* the invocation in flight that has not come back otherwise is ended by the
\* timeout of the book processor function: invoke returns the Lambda-level
\* error "Task timed out"
OrchInvocationTimesOut(i) ==
    /\ orch.pc = "gather"
    /\ i \in ChunkIndices(orch.chunk_index, orch.chunk_size, Len(orch.book_infos))
    /\ orch.outcomes[i] = Pending
    /\ orch' = [orch EXCEPT !.outcomes[i] = Some([kind |-> "payload", payload |-> LambdaError])]
    /\ UNCHANGED <<poolVars, aggVars, callerVars>>

\* gather returns: the chunk's results are converted and collected
OrchChunkDone ==
    /\ orch.pc = "gather"
    /\ LET idx == ChunkIndices(orch.chunk_index, orch.chunk_size, Len(orch.book_infos))
           lo == ChunkStart(orch.chunk_index, orch.chunk_size)
           hi == ChunkEnd(orch.chunk_index, orch.chunk_size, Len(orch.book_infos))
           chunk == [k \in 1..(hi - lo) |-> orch.book_infos[lo + k]]
           outs == [k \in 1..(hi - lo) |-> orch.outcomes[lo + k][1]]
       IN  /\ \A i \in idx : orch.outcomes[i] # Pending
           /\ orch' = [orch EXCEPT
                         !.pc = "loop",
                         !.chunk_index = orch.chunk_index + 1,
                         !.all_results = Extend(orch.all_results,
                                                process_chunk_simultaneously(chunk, outs))]
    /\ UNCHANGED <<poolVars, aggVars, callerVars>>

\* steps 5 and 6 of process_csv_pipeline and its return value
OrchFinish ==
    /\ orch.pc = "loop"
    /\ orch.chunk_index = TotalChunks(Len(orch.book_infos), orch.chunk_size)
    /\ LET successful_books == SuccessfulCount(orch.all_results)
       IN  orch' = [orch EXCEPT
                      !.pc = "done",
                      !.dashboard = Some(create_final_dashboard_json(orch.all_results,
                                                                     orch.book_infos)),
                      !.result = Some([status |-> "complete",
                                  total_books |-> Len(orch.book_infos),
                                  successful_books |-> successful_books,
                                  failed_books |-> Len(orch.all_results) - successful_books,
                                  chunks_processed |->
                                      TotalChunks(Len(orch.book_infos), orch.chunk_size)])]
    /\ UNCHANGED <<poolVars, aggVars, callerVars>>


\* cdk/lambda_code/status_checker/lambda_function.py: get_processing_status on
\* the object under status/{uuid}.json; estimated_completion is kept as the
\* number of books that remain
get_processing_status(status_object) ==
    IF status_object = Pending
    THEN [statusCode |-> 404, body |-> [error |-> "UUID not found"]]
    ELSE LET status_data == status_object[1]
             progress == Get(status_data, "progress", EmptyDict)
             processed_books == Get(progress, "processed_books", 0)
         IN  [statusCode |-> 200,
              body |-> IF Get(status_data, "status", "") = "processing" /\ processed_books > 0
                       THEN Put(status_data, "estimated_completion",
                                Get(progress, "total_books", 1) - processed_books)
                       ELSE status_data]

\* ------------------------------------------------------------------------
\* genres/models/analytics.py and datetime.date
\* Scalars of the JSON documents are kept as their text; null and "" are <<>>.

\* the fields of the dataclass BookAnalytics
ConstructorFields ==
    {"goodreads_id", "title", "author", "author_lf", "additional_authors",
     "isbn", "isbn13", "my_rating", "average_rating", "publisher", "binding",
     "num_pages", "year_published", "original_publication_year", "date_read",
     "date_added", "reading_status", "bookshelves", "bookshelves_with_positions",
     "my_review", "private_notes", "has_spoilers", "read_count_original",
     "owned_copies", "final_genres", "genre_enrichment_success",
     "thumbnail_url", "small_thumbnail_url"}

\* the fields without a default
RequiredFields == {"goodreads_id", "title", "author"}

\* BookAnalytics(**kwargs) raises TypeError: an unexpected keyword argument or
\* a missing positional one
ConstructorRaises(kwargs) ==
    \/ ~(DOMAIN kwargs \subseteq ConstructorFields)
    \/ ~(RequiredFields \subseteq DOMAIN kwargs)

\* BookAnalytics(**kwargs): the attributes the aggregator and the exporter use
BookAnalytics(kwargs) ==
    [goodreads_id |-> kwargs.goodreads_id,
     title |-> kwargs.title,
     author |-> kwargs.author,
     date_read |-> Get(kwargs, "date_read", <<>>),
     final_genres |-> Get(kwargs, "final_genres", <<>>),
     genre_enrichment_success |-> Get(kwargs, "genre_enrichment_success", FALSE),
     thumbnail_url |-> Get(kwargs, "thumbnail_url", None),
     enrichment_logs |-> <<>>]

DigitVal(c) ==
    CASE c = "0" -> 0 [] c = "1" -> 1 [] c = "2" -> 2 [] c = "3" -> 3 [] c = "4" -> 4
      [] c = "5" -> 5 [] c = "6" -> 6 [] c = "7" -> 7 [] c = "8" -> 8 [] c = "9" -> 9

DigitChar(n) ==
    CASE n = 0 -> "0" [] n = 1 -> "1" [] n = 2 -> "2" [] n = 3 -> "3" [] n = 4 -> "4"
      [] n = 5 -> "5" [] n = 6 -> "6" [] n = 7 -> "7" [] n = 8 -> "8" [] n = 9 -> "9"

\* int(s) for a string of digits
RECURSIVE ParseInt(_)
ParseInt(s) ==
    IF s = <<>> THEN 0
    ELSE 10 * ParseInt(SubSeq(s, 1, Len(s) - 1)) + DigitVal(s[Len(s)])

\* f"{n:0{width}d}"
RECURSIVE ZeroPadded(_, _)
ZeroPadded(n, width) ==
    IF width = 0 THEN <<>>
    ELSE Append(ZeroPadded(n \div 10, width - 1), DigitChar(n % 10))

IsLeap(y) == (y % 4 = 0 /\ y % 100 # 0) \/ y % 400 = 0

DaysInMonth(y, m) ==
    IF m = 2 THEN (IF IsLeap(y) THEN 29 ELSE 28)
    ELSE IF m \in {4, 6, 9, 11} THEN 30 ELSE 31

\* date_string is YYYY-MM-DD naming a day of the calendar; any other string
\* makes datetime.fromisoformat raise ValueError
IsIsoDate(s) ==
    /\ Len(s) = 10
    /\ s[5] = "-" /\ s[8] = "-"
    /\ \A i \in {1, 2, 3, 4, 6, 7, 9, 10} : s[i] \in DigitChars
    /\ LET y == ParseInt(SubSeq(s, 1, 4))
           m == ParseInt(SubSeq(s, 6, 7))
           d == ParseInt(SubSeq(s, 9, 10))
       IN  y >= 1 /\ m \in 1..12 /\ d \in 1..DaysInMonth(y, m)

\* datetime.fromisoformat(s).date(): a date object is <<"date", y, m, d>>
fromisoformat(s) ==
    <<"date", ParseInt(SubSeq(s, 1, 4)), ParseInt(SubSeq(s, 6, 7)), ParseInt(SubSeq(s, 9, 10))>>

IsDate(v) == Len(v) = 4 /\ v[1] = "date"

\* date.isoformat()
isoformat(d) ==
    ZeroPadded(d[2], 4) \o <<"-">> \o ZeroPadded(d[3], 2) \o <<"-">> \o ZeroPadded(d[4], 2)

\* BookAnalytics.to_dashboard_dict raises AttributeError: date_read is truthy
\* and has no isoformat
DashboardDictRaises(book) == book.date_read # <<>> /\ ~IsDate(book.date_read)

\* BookAnalytics.to_dashboard_dict
to_dashboard_dict(book) ==
    [goodreads_id |-> book.goodreads_id,
     title |-> book.title,
     author |-> book.author,
     date_read |-> IF book.date_read # <<>> THEN isoformat(book.date_read) ELSE <<>>,
     reading_year |-> IF book.date_read # <<>> THEN ZeroPadded(book.date_read[2], 4) ELSE <<>>,
     genres |-> book.final_genres,
     thumbnail_url |-> book.thumbnail_url,
     genre_enriched |-> book.genre_enrichment_success]

\* ------------------------------------------------------------------------
\* cdk/lambda_code/aggregator/lambda_function.py: merge_enriched_data

\* the computed properties filtered out of an original book
computed_properties ==
    {"reading_year", "reading_month_year", "is_rated", "page_category",
     "has_review", "was_reread"}

field_mappings ==
    [genres |-> "final_genres",
     publication_year |-> "original_publication_year",
     genre_enriched |-> "genre_enrichment_success",
     original_read_count |-> "read_count_original"]

\* the keys given a default by setdefault
defaulted_fields ==
    {"author_lf", "additional_authors", "year_published", "date_added",
     "bookshelves_with_positions", "owned_copies"}

\* book_key of an original book: goodreads_id, else f"{title}-{author}"
BookKey(original_book) ==
    IF Get(original_book, "goodreads_id", <<>>) # <<>>
    THEN original_book.goodreads_id
    ELSE TitleAuthor(Get(original_book, "title", <<>>), Get(original_book, "author", <<>>))

NoEnrichedResult == [statusCode |-> 500, body |-> [error |-> <<"No enriched result found">>]]

\* enriched_results_map.get(book_key), replaced when falsy
EnrichedResultFor(original_book, enriched_results_map) ==
    LET found == Get(enriched_results_map, BookKey(original_book), EmptyDict)
    IN  IF DOMAIN found = {} THEN NoEnrichedResult ELSE found

\* the dict comprehension dropping the computed properties
FilteredBookData(original_book) ==
    [k \in DOMAIN original_book \ computed_properties |-> original_book[k]]

\* the loop over field_mappings: filtered_book_data[new] = filtered_book_data.pop(old)
MappedBookData(d) ==
    LET olds == DOMAIN d \cap DOMAIN field_mappings
        news == {field_mappings[o] : o \in olds}
    IN  [k \in (DOMAIN d \ olds) \cup news |->
            IF k \in news THEN d[CHOOSE o \in olds : field_mappings[o] = k] ELSE d[k]]

HasDateRead(d) == "date_read" \in DOMAIN d /\ d.date_read # <<>>

\* the conversion of date_read, where fromisoformat does not raise
ConvertedBookData(d) ==
    IF HasDateRead(d) THEN [d EXCEPT !.date_read = fromisoformat(d.date_read)] ELSE d

\* the setdefault calls
DefaultedBookData(d) ==
    [k \in DOMAIN d \cup defaulted_fields |->
        IF k \in DOMAIN d THEN d[k] ELSE IF k = "owned_copies" THEN 0 ELSE <<>>]

\* the try block raises: fromisoformat or the constructor
MergeRaises(original_book) ==
    LET d == MappedBookData(FilteredBookData(original_book))
    IN  \/ HasDateRead(d) /\ ~IsIsoDate(d.date_read)
        \/ ConstructorRaises(DefaultedBookData(d))

\* "Apply enrichment if successful", else "Handle failed enrichment"
ApplyEnrichment(book, enriched_result) ==
    IF Get(enriched_result, "statusCode", 0) = 200
    THEN LET enriched_body == Get(enriched_result, "body", EmptyDict)
         IN  [book EXCEPT
                !.final_genres = Get(enriched_body, "final_genres", <<>>),
                !.genre_enrichment_success =
                    Get(enriched_body, "genre_enrichment_success", FALSE),
                !.thumbnail_url = Get(enriched_body, "thumbnail_url", None),
                !.enrichment_logs = Get(enriched_body, "enrichment_logs", <<>>)]
    ELSE [book EXCEPT
            !.final_genres = <<>>,
            !.genre_enrichment_success = FALSE,
            !.enrichment_logs = <<"Enrichment failed">>]

\* one iteration of "for original_book in original_books": what it appends
\* to enhanced_books (nothing after the "continue" of the inner except)
MergeOne(original_book, enriched_results_map) ==
    IF ~MergeRaises(original_book)
    THEN <<ApplyEnrichment(
             BookAnalytics(DefaultedBookData(ConvertedBookData(
                 MappedBookData(FilteredBookData(original_book))))),
             EnrichedResultFor(original_book, enriched_results_map))>>
    ELSE IF ~ConstructorRaises(original_book)
         THEN <<[BookAnalytics(original_book) EXCEPT
                    !.final_genres = <<>>,
                    !.genre_enrichment_success = FALSE,
                    !.enrichment_logs = <<"Merge error">>]>>
         ELSE <<>>

RECURSIVE merge_enriched_data(_, _)
merge_enriched_data(original_books, enriched_results_map) ==
    IF original_books = <<>> THEN <<>>
    ELSE MergeOne(Head(original_books), enriched_results_map)
         \o merge_enriched_data(Tail(original_books), enriched_results_map)

\* ------------------------------------------------------------------------
\* The documents of one job.

IsoDay == <<"2", "0", "2", "4", "-", "0", "2", "-", "2", "9">>
SlashDay == <<"0", "2", "/", "2", "9">>

\* original_books.json holds dashboard dicts (to_dashboard_dict); DashThree
\* carries a date that is not ISO, PlainFour has the constructor's own keys
DashOne ==
    [goodreads_id |-> <<"1">>, title |-> <<"a">>, author |-> <<"x">>, isbn |-> <<"1">>,
     date_read |-> <<>>, reading_year |-> <<>>, genres |-> <<>>]
DashTwo ==
    [goodreads_id |-> <<>>, title |-> <<"b">>, author |-> <<"y">>, isbn |-> <<"2">>,
     date_read |-> IsoDay, reading_year |-> <<"2", "0", "2", "4">>, genres |-> <<>>]
DashThree ==
    [goodreads_id |-> <<"2">>, title |-> <<"c">>, author |-> <<"x">>, isbn |-> <<"2">>,
     date_read |-> SlashDay, reading_year |-> <<>>, genres |-> <<>>]
PlainFour ==
    [goodreads_id |-> <<"1">>, title |-> <<"b">>, author |-> <<"y">>, isbn |-> <<"1">>,
     date_read |-> SlashDay, final_genres |-> <<>>]

OriginalCatalog == {DashOne, DashTwo, DashThree, PlainFour}

OriginalLists(n) == UNION {[1..k -> OriginalCatalog] : k \in 0..n}

\* book_processor: result_key of store_enriched_result, below the job's
\* enriched/ prefix: f"{book_isbn}_{book_title[:50]}.json"
result_key(book_data) ==
    LET book_title == Get(book_data, "title", <<"u", "n", "k", "n", "o", "w", "n">>)
        book_isbn == Get(book_data, "isbn", Get(book_data, "isbn13", <<"n", "o", "-", "i", "s", "b", "n">>))
    IN  book_isbn \o <<"_">> \o SubSeq(book_title, 1, Min(Len(book_title), 50))

\* book_processor: store_enriched_result on the enriched/ objects of the job
store_enriched_result(objects, book_data, result) ==
    Put(objects, result_key(book_data),
        [original_book |-> book_data, enriched_result |-> result])

\* what the book processor answered for the books of the job: nothing yet,
\* an enrichment from both sources, or a failure
ProcessorChoices == {"none", "enriched", "failed"}

ChosenResult(book_data, choice) ==
    IF choice = "enriched"
    THEN enrich_single_book(book_data, FALSE,
                            [ok |-> TRUE, genres |-> GoogleCategories(book_data)],
                            [ok |-> TRUE, genres |-> OpenLibSubjects(book_data)])
    ELSE enrich_single_book(book_data, TRUE, NoData, NoData)

\* the enriched/ objects after the processors of books 1..n have stored
RECURSIVE StoredObjects(_, _, _)
StoredObjects(original_books, choices, n) ==
    IF n = 0 THEN EmptyDict
    ELSE LET before == StoredObjects(original_books, choices, n - 1)
         IN  IF choices[n] = "none" THEN before
             ELSE store_enriched_result(before, original_books[n],
                                        ChosenResult(original_books[n], choices[n]))

\* the loop of process_job_aggregation over the listed keys, all of them read
RECURSIVE EnrichedResultsMap(_, _, _)
EnrichedResultsMap(enriched_results_map, objects, keys) ==
    IF keys = <<>> THEN enriched_results_map
    ELSE LET enriched_data == objects[Head(keys)]
         IN  EnrichedResultsMap(
                 Put(enriched_results_map, BookKey(enriched_data.original_book),
                     enriched_data.enriched_result),
                 objects, Tail(keys))

\* one call of merge_enriched_data on the documents of a job
MergeInit ==
    \E bs \in OriginalLists(MaxOriginal) :
        \E choices \in [DOMAIN bs -> ProcessorChoices] :
            LET objects == StoredObjects(bs, choices, Len(bs))
            IN  merge = [original_books |-> bs,
                         enriched_results_map |->
                             EnrichedResultsMap(EmptyDict, objects, Sorted(DOMAIN objects)),
                         enhanced_books |-> Pending]

MergeIdle ==
    merge = [original_books |-> <<>>, enriched_results_map |-> EmptyDict,
             enhanced_books |-> Pending]

MergeCall ==
    /\ merge.enhanced_books = Pending
    /\ merge' = [merge EXCEPT !.enhanced_books =
                    Some(merge_enriched_data(merge.original_books,
                                             merge.enriched_results_map))]
    /\ UNCHANGED <<poolVars, orch, s3, inv, now, hist, callerVars>>

\* ------------------------------------------------------------------------
\* cdk/lambda_code/aggregator/lambda_function.py: the handlers, one action
\* per S3 request. s3.status is status/{job}.json, s3.original_books is
\* processing/{job}/original_books.json, s3.enriched maps the keys below
\* processing/{job}/enriched/ to their objects, s3.data is data/{job}.json.

\* is_job_timed_out: timeout_minutes
timeout_minutes == 10

\* how far one tick moves the clock: two ticks exceed the timeout
TickMinutes == timeout_minutes \div 2 + 1

EventKinds == {"s3_event", "safety_trigger", "direct", "scheduled"}

NoWrite == [status |-> "", progress |-> 0, message |-> "", next |-> ""]

\* an invocation slot that has not been triggered
InvIdle ==
    [kind |-> "none", pc |-> "idle", status |-> EmptyDict, original_books |-> <<>>,
     listed |-> <<>>, enriched_results_map |-> EmptyDict, current_time |-> 0,
     write |-> NoWrite, current_status |-> EmptyDict, statusCode |-> 0]

\* the handler returns {'statusCode': code, ...}
Returned(k, code) ==
    [InvIdle EXCEPT !.kind = inv[k].kind, !.pc = "done", !.statusCode = code]

\* a call of update_processing_status(uuid, status, progress, message), after
\* which the handler goes on at next
BeginWrite(k, status, progress, message, next) ==
    [inv[k] EXCEPT !.pc = "status_get",
                   !.write = [status |-> status, progress |-> progress,
                              message |-> message, next |-> next]]

\* the except clause of process_job_aggregation
Failed(k) ==
    [BeginWrite(k, "error", 0, "Aggregation failed", "return_500") EXCEPT
        !.original_books = <<>>, !.listed = <<>>, !.enriched_results_map = EmptyDict]

\* the status record as the uploader left it; the job is seen as started at 0
InitialStatus(n) ==
    [status |-> "processing", last_updated |-> 0, progress |-> [total_books |-> n]]

\* dict.update
Update(d, u) == [k \in DOMAIN d \cup DOMAIN u |-> IF k \in DOMAIN u THEN u[k] ELSE d[k]]

AggInit ==
    /\ \E bs \in OriginalLists(MaxOriginal) :
          \E choices \in [DOMAIN bs -> ProcessorChoices] :
             \E status \in {Pending, Some(InitialStatus(Len(bs)))} :
                /\ s3 = [status |-> status,
                         original_books |-> Some([Body |-> bs, LastModified |-> 0]),
                         enriched |-> StoredObjects(bs, choices, Len(bs)),
                         data |-> Pending]
                /\ hist = [original_books |-> bs,
                           all_stored |->
                               Cardinality(DOMAIN StoredObjects(bs, choices, Len(bs))) = Len(bs),
                           status |-> status]
    /\ inv = [k \in 1..MaxInvocations |-> InvIdle]
    /\ now = 0

\* the status records a job under processing/ can be found with: in progress,
\* or left terminal by an earlier aggregation
StatusRecords(n) ==
    {[InitialStatus(n) EXCEPT !.status = st] : st \in {"processing", "complete", "error"}}

\* one run of the aggregator on a job found under processing/, the clock
\* either at the hand-over of the job or past the timeout
SafetyInit ==
    /\ now \in {0, MaxTicks * TickMinutes}
    /\ \E bs \in OriginalLists(MaxOriginal) :
          \E choices \in [DOMAIN bs -> ProcessorChoices] :
             \E status \in {Pending} \cup {Some(r) : r \in StatusRecords(Len(bs))} :
                /\ s3 = [status |-> status,
                         original_books |-> Some([Body |-> bs, LastModified |-> 0]),
                         enriched |-> StoredObjects(bs, choices, Len(bs)),
                         data |-> Pending]
                /\ hist = [original_books |-> bs,
                           all_stored |->
                               Cardinality(DOMAIN StoredObjects(bs, choices, Len(bs))) = Len(bs),
                           status |-> status,
                           enriched |-> StoredObjects(bs, choices, Len(bs)),
                           now |-> now]
    /\ inv = <<InvIdle>>

\* lambda_handler: the dispatch on the event
Trigger(k, kind) ==
    /\ inv[k].pc = "idle"
    /\ k > 1 => inv[k - 1].pc # "idle"
    /\ inv' = [inv EXCEPT ![k] =
                  [@ EXCEPT !.kind = kind,
                            !.pc = CASE kind = "s3_event" -> "ready_status"
                                     [] kind = "direct" -> "load_original"
                                     [] OTHER -> "list_jobs"]]
    /\ UNCHANGED <<s3, now, hist, merge>>

\* handle_timeout_safety_check and check_and_process_ready_jobs: the listing
\* of the prefixes below processing/
ListJobs(k) ==
    /\ inv[k].pc = "list_jobs"
    /\ inv' = [inv EXCEPT ![k] =
                  IF s3.original_books = Pending /\ DOMAIN s3.enriched = {}
                  THEN Returned(k, 200)
                  ELSE IF inv[k].kind = "safety_trigger"
                       THEN [@ EXCEPT !.pc = "timeout_status", !.current_time = now]
                       ELSE [@ EXCEPT !.pc = "ready_status"]]
    /\ UNCHANGED <<s3, now, hist, merge>>

\* is_job_ready_for_aggregation: get_object of the status record
ReadyGetStatus(k) ==
    /\ inv[k].pc = "ready_status"
    /\ inv' = [inv EXCEPT ![k] =
                  IF s3.status = Pending THEN Returned(k, 200)
                  ELSE IF Get(s3.status[1], "status", "") # "processing"
                       THEN Returned(k, 200)
                       ELSE [@ EXCEPT !.pc = "ready_head", !.status = s3.status[1]]]
    /\ UNCHANGED <<s3, now, hist, merge>>

\* is_job_ready_for_aggregation: head_object of original_books.json
ReadyHead(k) ==
    /\ inv[k].pc = "ready_head"
    /\ inv' = [inv EXCEPT ![k] =
                  IF s3.original_books = Pending THEN Returned(k, 200)
                  ELSE [@ EXCEPT !.pc = "ready_list"]]
    /\ UNCHANGED <<s3, now, hist, merge>>

\* is_job_ready_for_aggregation: the listing of enriched/ and the verdict
ReadyList(k) ==
    /\ inv[k].pc = "ready_list"
    /\ LET enriched_count == Cardinality(DOMAIN s3.enriched)
           expected_count ==
               Get(Get(inv[k].status, "progress", EmptyDict), "total_books", 0)
       IN  inv' = [inv EXCEPT ![k] =
                      IF enriched_count >= expected_count /\ expected_count > 0
                      THEN [@ EXCEPT !.pc = "load_original", !.status = EmptyDict]
                      ELSE Returned(k, 200)]
    /\ UNCHANGED <<s3, now, hist, merge>>

\* an is_job_timed_out that does not compare the age with the timeout
TimeoutWithoutThreshold(k) ==
    /\ inv[k].pc = "timeout_status"
    /\ inv' = [inv EXCEPT ![k] =
                  IF s3.status = Pending THEN [@ EXCEPT !.pc = "timeout_head"]
                  ELSE IF Get(s3.status[1], "status", "") \in {"complete", "error"}
                       THEN Returned(k, 200)
                  ELSE BeginWrite(k, "processing", 100,
                                  "Job timed out - processing partial results",
                                  "load_original")]
    /\ UNCHANGED <<s3, now, hist, merge>>

\* is_job_timed_out: get_object of the status record; a timed out job goes to
\* process_job_aggregation_with_timeout and its first status write
TimeoutGetStatus(k) ==
    /\ inv[k].pc = "timeout_status"
    /\ inv' = [inv EXCEPT ![k] =
                  IF s3.status = Pending THEN [@ EXCEPT !.pc = "timeout_head"]
                  ELSE IF Get(s3.status[1], "status", "") \in {"complete", "error"}
                       THEN Returned(k, 200)
                  ELSE IF /\ "last_updated" \in DOMAIN s3.status[1]
                          /\ inv[k].current_time - s3.status[1].last_updated > timeout_minutes
                       THEN BeginWrite(k, "processing", 100,
                                       "Job timed out - processing partial results",
                                       "load_original")
                       ELSE Returned(k, 200)]
    /\ UNCHANGED <<s3, now, hist, merge>>

\* is_job_timed_out without a status record: the age of original_books.json
TimeoutHead(k) ==
    /\ inv[k].pc = "timeout_head"
    /\ inv' = [inv EXCEPT ![k] =
                  IF /\ s3.original_books # Pending
                     /\ inv[k].current_time - s3.original_books[1].LastModified > timeout_minutes
                  THEN BeginWrite(k, "processing", 100,
                                  "Job timed out - processing partial results",
                                  "load_original")
                  ELSE Returned(k, 200)]
    /\ UNCHANGED <<s3, now, hist, merge>>

\* update_processing_status: get_object of the current record ({} if absent)
StatusGet(k) ==
    /\ inv[k].pc = "status_get"
    /\ inv' = [inv EXCEPT ![k] =
                  [@ EXCEPT !.pc = "status_put",
                            !.current_status =
                                IF s3.status = Pending THEN EmptyDict ELSE s3.status[1]]]
    /\ UNCHANGED <<s3, now, hist, merge>>

\* update_processing_status: the update of the record read and its put_object
StatusPut(k) ==
    /\ inv[k].pc = "status_put"
    /\ s3' = [s3 EXCEPT !.status =
                 Some(Update(inv[k].current_status,
                             [status |-> inv[k].write.status,
                              message |-> inv[k].write.message,
                              last_updated |-> now,
                              progress |-> [percent_complete |-> inv[k].write.progress]]))]
    /\ inv' = [inv EXCEPT ![k] =
                  IF inv[k].write.next = "return_500" THEN Returned(k, 500)
                  ELSE [@ EXCEPT !.pc = inv[k].write.next, !.write = NoWrite,
                                 !.current_status = EmptyDict]]
    /\ UNCHANGED <<now, hist, merge>>

\* process_job_aggregation: get_object of original_books.json
LoadOriginal(k) ==
    /\ inv[k].pc = "load_original"
    /\ inv' = [inv EXCEPT ![k] =
                  IF s3.original_books = Pending THEN Failed(k)
                  ELSE [@ EXCEPT !.pc = "list_enriched",
                                 !.original_books = s3.original_books[1].Body]]
    /\ UNCHANGED <<s3, now, hist, merge>>

\* process_job_aggregation: the listing of enriched/
ListEnriched(k) ==
    /\ inv[k].pc = "list_enriched"
    /\ inv' = [inv EXCEPT ![k] =
                  [@ EXCEPT !.pc = "load_enriched", !.listed = Sorted(DOMAIN s3.enriched)]]
    /\ UNCHANGED <<s3, now, hist, merge>>

\* process_job_aggregation: get_object of the next listed key
LoadEnriched(k) ==
    /\ inv[k].pc = "load_enriched"
    /\ inv[k].listed # <<>>
    /\ LET key == Head(inv[k].listed)
       IN  inv' = [inv EXCEPT ![k] =
                      IF key \notin DOMAIN s3.enriched THEN Failed(k)
                      ELSE [@ EXCEPT
                              !.listed = Tail(inv[k].listed),
                              !.enriched_results_map =
                                  Put(inv[k].enriched_results_map,
                                      BookKey(s3.enriched[key].original_book),
                                      s3.enriched[key].enriched_result)]]
    /\ UNCHANGED <<s3, now, hist, merge>>

\* process_job_aggregation: the merge, the export and put_object of the
\* dashboard JSON, followed by the status write "complete"
PutDashboard(k) ==
    /\ inv[k].pc = "load_enriched"
    /\ inv[k].listed = <<>>
    /\ LET enhanced == merge_enriched_data(inv[k].original_books,
                                           inv[k].enriched_results_map)
       IN  IF enhanced = <<>> \/ \E i \in DOMAIN enhanced : DashboardDictRaises(enhanced[i])
           THEN /\ inv' = [inv EXCEPT ![k] = Failed(k)]
                /\ s3' = s3
           ELSE /\ s3' = [s3 EXCEPT !.data =
                             Some([i \in DOMAIN enhanced |-> to_dashboard_dict(enhanced[i])])]
                /\ inv' = [inv EXCEPT ![k] =
                              [BeginWrite(k, "complete", 100, "Successfully processed",
                                          "cleanup_list") EXCEPT
                                  !.original_books = <<>>,
                                  !.enriched_results_map = EmptyDict]]
    /\ UNCHANGED <<now, hist, merge>>

\* cleanup_processing_files: the listing of enriched/
CleanupList(k) ==
    /\ inv[k].pc = "cleanup_list"
    /\ inv' = [inv EXCEPT ![k] =
                  IF DOMAIN s3.enriched = {} THEN [@ EXCEPT !.pc = "cleanup_original"]
                  ELSE [@ EXCEPT !.pc = "cleanup_objects",
                                 !.listed = Sorted(DOMAIN s3.enriched)]]
    /\ UNCHANGED <<s3, now, hist, merge>>

\* cleanup_processing_files: delete_objects of the listed keys
CleanupObjects(k) ==
    /\ inv[k].pc = "cleanup_objects"
    /\ LET delete_keys == {inv[k].listed[i] : i \in DOMAIN inv[k].listed}
       IN  s3' = [s3 EXCEPT !.enriched =
                     [key \in DOMAIN s3.enriched \ delete_keys |-> s3.enriched[key]]]
    /\ inv' = [inv EXCEPT ![k] = [@ EXCEPT !.pc = "cleanup_original", !.listed = <<>>]]
    /\ UNCHANGED <<now, hist, merge>>

\* cleanup_processing_files: delete_object of original_books.json, after which
\* process_job_aggregation returns 200
CleanupOriginal(k) ==
    /\ inv[k].pc = "cleanup_original"
    /\ s3' = [s3 EXCEPT !.original_books = Pending]
    /\ inv' = [inv EXCEPT ![k] = Returned(k, 200)]
    /\ UNCHANGED <<now, hist, merge>>

\* time passes
Tick ==
    /\ now < MaxTicks * TickMinutes
    /\ now' = now + TickMinutes
    /\ UNCHANGED <<s3, inv, hist, merge>>

\* no job and no invocation
S3Idle == s3 = <<>> /\ inv = <<>> /\ now = 0 /\ hist = <<>>

AggIdle == S3Idle /\ MergeIdle



\* ------------------------------------------------------------------------
\* genres/api_caller.py: RateLimiter

\* no limiter and no caller
LimiterIdle == limiter = <<>>

\* no call in progress
CallIdle == call = <<>>

\* the clock counts ticks; TicksPerSecond ticks make a second
TicksPerSecond == 2
MaxCallsPerSecond == 2
MaxCallers == 2
MaxCalls == 2
MaxClock == 6

\* self.min_interval = 1.0 / calls_per_second, in ticks
min_interval(calls_per_second) == TicksPerSecond \div calls_per_second

\* RateLimiter(calls_per_second) shared by MaxCallers threads, none of them
\* inside wait(); time.time() is well past last_called = 0
LimiterInit ==
    \E calls_per_second \in 1..MaxCallsPerSecond :
        limiter = [min_interval |-> min_interval(calls_per_second),
                   last_called |-> 0,
                   clock |-> TicksPerSecond,
                   callers |-> [c \in 1..MaxCallers |->
                                   [pc |-> "idle", wake_at |-> 0, calls |-> 0]],
                   returns |-> <<>>]

\* time passes
LimiterTick ==
    /\ limiter.clock < MaxClock
    /\ limiter' = [limiter EXCEPT !.clock = @ + 1]

\* "elapsed = time.time() - self.last_called" and the test on it
WaitRead(c) ==
    /\ limiter.callers[c].pc = "idle"
    /\ limiter.callers[c].calls < MaxCalls
    /\ LET elapsed == limiter.clock - limiter.last_called
       IN  IF elapsed < limiter.min_interval
           THEN limiter' = [limiter EXCEPT
                               !.callers[c].pc = "sleep",
                               !.callers[c].wake_at =
                                   limiter.clock + (limiter.min_interval - elapsed)]
           ELSE limiter' = [limiter EXCEPT !.callers[c].pc = "write"]

\* "time.sleep(self.min_interval - elapsed)" returns, no earlier than asked
WaitSleep(c) ==
    /\ limiter.callers[c].pc = "sleep"
    /\ limiter.clock >= limiter.callers[c].wake_at
    /\ limiter' = [limiter EXCEPT !.callers[c].pc = "write"]

\* "self.last_called = time.time()" and the return from wait()
WaitWrite(c) ==
    /\ limiter.callers[c].pc = "write"
    /\ limiter' = [limiter EXCEPT !.last_called = limiter.clock,
                                  !.returns = Append(@, limiter.clock),
                                  !.callers[c].pc = "idle",
                                  !.callers[c].calls = @ + 1]

\* ------------------------------------------------------------------------
\* genres/api_caller.py: APICaller.get

MaxRetries == 3

\* response.json() of a 200 answer
JsonData == <<"{", "}">>

\* what requests.get can do on one attempt: answer with a status (a 200
\* whose body is JSON or is not), time out, or fail in transport
Responses ==
    {[kind |-> "status", status_code |-> c, json |-> TRUE] : c \in {200, 204, 404, 503}}
    \cup {[kind |-> "status", status_code |-> 200, json |-> FALSE]}
    \cup {[kind |-> "timeout"], [kind |-> "error"]}

\* _backoff_sleep: sleep_time = 2 ** attempt
backoff_sleep(attempt) == 2 ^ attempt

GetReturn(value) == [returns |-> TRUE, raises |-> FALSE, value |-> value]
GetContinue == [returns |-> FALSE, raises |-> FALSE, value |-> None]
GetRaise == [returns |-> FALSE, raises |-> TRUE, value |-> None]

GetRetryingClientErrors(response, attempt, max_retries) ==
    IF response.kind = "status"
    THEN IF response.status_code = 200
         THEN GetReturn(IF response.json THEN <<TRUE, response.status_code, JsonData>>
                        ELSE <<FALSE, response.status_code, None>>)
         ELSE IF response.status_code >= 400
              THEN IF attempt < max_retries - 1 THEN GetContinue
                   ELSE GetReturn(<<FALSE, response.status_code, None>>)
         ELSE GetReturn(<<FALSE, response.status_code, None>>)
    ELSE IF attempt < max_retries - 1 THEN GetContinue
         ELSE GetReturn(<<FALSE, 0, None>>)

GetWithoutExcept(response, attempt, max_retries) ==
    IF response.kind = "status"
    THEN IF response.status_code = 200
         THEN GetReturn(IF response.json THEN <<TRUE, response.status_code, JsonData>>
                        ELSE <<FALSE, response.status_code, None>>)
         ELSE IF 400 <= response.status_code /\ response.status_code < 500
              THEN GetReturn(<<FALSE, response.status_code, None>>)
         ELSE IF response.status_code >= 500
              THEN IF attempt < max_retries - 1 THEN GetContinue
                   ELSE GetReturn(<<FALSE, response.status_code, None>>)
         ELSE GetReturn(<<FALSE, response.status_code, None>>)
    ELSE GetRaise

\* the body of "for attempt in range(self.max_retries)" from requests.get
\* on: return a tuple, or back off and continue
get_attempt(response, attempt, max_retries) ==
    IF response.kind = "status"
    THEN IF response.status_code = 200
         THEN GetReturn(IF response.json THEN <<TRUE, response.status_code, JsonData>>
                        ELSE <<FALSE, response.status_code, None>>)
         ELSE IF 400 <= response.status_code /\ response.status_code < 500
              THEN GetReturn(<<FALSE, response.status_code, None>>)
         ELSE IF response.status_code >= 500
              THEN IF attempt < max_retries - 1 THEN GetContinue
                   ELSE GetReturn(<<FALSE, response.status_code, None>>)
         ELSE GetReturn(<<FALSE, response.status_code, None>>)
    ELSE IF attempt < max_retries - 1 THEN GetContinue
         ELSE GetReturn(<<FALSE, 0, None>>)

\* APICaller(max_retries=...).get(url) is called
GetInit ==
    \E max_retries \in 0..MaxRetries :
        call = [fn |-> "get", max_retries |-> max_retries, attempt |-> 0,
                pc |-> "loop", log |-> <<>>, result |-> Pending]

\* "self.rate_limiter.wait()" at the head of an iteration
GetWait ==
    /\ call.pc = "loop"
    /\ call.attempt < call.max_retries
    /\ call' = [call EXCEPT !.pc = "request", !.log = Append(@, [op |-> "wait"])]

\* the loop has run out of attempts: the return after it
GetExhausted ==
    /\ call.pc = "loop"
    /\ call.attempt >= call.max_retries
    /\ call' = [call EXCEPT !.pc = "returned", !.result = Some(<<FALSE, 0, None>>)]

\* requests.get and everything up to the return or the continue
GetRequest ==
    /\ call.pc = "request"
    /\ \E response \in Responses :
          LET r == get_attempt(response, call.attempt, call.max_retries)
              requested == Append(call.log, [op |-> "request", response |-> response])
          IN  IF r.raises
              THEN call' = [call EXCEPT !.pc = "raised", !.log = requested]
              ELSE IF r.returns
              THEN call' = [call EXCEPT !.pc = "returned", !.log = requested,
                                        !.result = Some(r.value)]
              ELSE call' = [call EXCEPT
                               !.pc = "loop",
                               !.log = Append(requested,
                                              [op |-> "sleep",
                                               sleep_time |-> backoff_sleep(call.attempt)]),
                               !.attempt = @ + 1]

\* ------------------------------------------------------------------------
\* genres/fetchers/google_fetcher.py and the Google Books adapter of
\* genres/pipeline/enricher.py

\* a book whose isbn is its isbn13
BookSame == BookInfo(<<"3">>, <<"a">>, <<"y">>, <<"1", "1">>, <<"1", "1">>)

\* f"isbn:{isbn}"
IsbnQuery(isbn) == <<"isbn:">> \o isbn

\* f'intitle:"{book.title}" inauthor:"{book.author}"'
TitleAuthorQuery(book) ==
    <<"intitle:", "\"">> \o book.title \o <<"\"", " inauthor:", "\"">> \o book.author \o <<"\"">>

QueriesWithoutDistinctCheck(book) ==
    (IF book.isbn13 # <<>> THEN <<IsbnQuery(book.isbn13)>> ELSE <<>>)
    \o (IF book.isbn # <<>> THEN <<IsbnQuery(book.isbn)>> ELSE <<>>)
    \o <<TitleAuthorQuery(book)>>

\* fetch_google_data: the list "queries"
Queries(book) ==
    (IF book.isbn13 # <<>> THEN <<IsbnQuery(book.isbn13)>> ELSE <<>>)
    \o (IF book.isbn # <<>> /\ book.isbn # book.isbn13 THEN <<IsbnQuery(book.isbn)>> ELSE <<>>)
    \o <<TitleAuthorQuery(book)>>

\* what api_caller.get can return for a query: (True, 200, data) with data
\* holding totalItems, lacking it or empty, or a failure tuple
GetResults ==
    {[success |-> TRUE, status_code |-> 200, data |-> [totalItems |-> n]] : n \in {0, 1}}
    \cup {[success |-> TRUE, status_code |-> 200, data |-> [kind |-> <<"x">>]],
          [success |-> TRUE, status_code |-> 200, data |-> EmptyDict],
          [success |-> FALSE, status_code |-> 404],
          [success |-> FALSE, status_code |-> 0]}

\* "success and data and data.get('totalItems', 0) > 0"
HasItems(got) ==
    /\ got.success
    /\ Get(got, "data", EmptyDict) # EmptyDict
    /\ Get(Get(got, "data", EmptyDict), "totalItems", 0) > 0

\* an Optional[Dict] return value: None, or a dict
NoDict == [is_none |-> TRUE]
Dict(d) == [is_none |-> FALSE, dict |-> d]

\* fetch_google_data(book, api_caller) is called
GoogleInit ==
    \E book \in Catalog \cup {BookSame} :
        call = [fn |-> "fetch_google_data", book |-> book, queries |-> Queries(book),
                next |-> 1, pc |-> "loop", log |-> <<>>, result |-> Pending]

\* one iteration of "for query in queries"
GoogleQuery ==
    /\ call.fn = "fetch_google_data"
    /\ call.pc = "loop"
    /\ call.next <= Len(call.queries)
    /\ \E got \in GetResults :
          LET logged == Append(call.log, [query |-> call.queries[call.next], got |-> got])
          IN  IF HasItems(got)
              THEN call' = [call EXCEPT !.pc = "returned", !.log = logged,
                                        !.result = Some(Dict(got.data))]
              ELSE call' = [call EXCEPT !.log = logged, !.next = @ + 1]

\* "return None" after the loop
GoogleNoData ==
    /\ call.fn = "fetch_google_data"
    /\ call.pc = "loop"
    /\ call.next > Len(call.queries)
    /\ call' = [call EXCEPT !.pc = "returned", !.result = Some(NoDict)]

\* AsyncGenreEnricher.fetch_google_data_async: the if/elif/else on the
\* identifiers of the book
AsyncQuery(book) ==
    IF book.isbn13 # <<>> THEN IsbnQuery(book.isbn13)
    ELSE IF book.isbn # <<>> THEN IsbnQuery(book.isbn)
    ELSE TitleAuthorQuery(book)

\* a 200 whose totalItems is 0, besides the events of every fetch
GoogleFetchEvents == FetchEvents \cup {"no_items"}

\* fetch_google_data_async(book) is called
AsyncGoogleInit ==
    \E book \in Catalog \cup {BookSame} :
        call = [fn |-> "fetch_google_data_async", book |-> book, pc |-> "get",
                log |-> <<>>, result |-> Pending]

\* the one session.get of fetch_google_data_async and its return
AsyncGoogleFetch ==
    /\ call.fn = "fetch_google_data_async"
    /\ call.pc = "get"
    /\ \E event \in GoogleFetchEvents :
          call' = [call EXCEPT
                      !.pc = "returned",
                      !.log = <<[query |-> AsyncQuery(call.book), event |-> event]>>,
                      !.result = IF event = "data" THEN Some(Dict([totalItems |-> 1]))
                                 ELSE Some(NoDict)]

\* ------------------------------------------------------------------------
\* genres/sources/goodreads.py: fetch_goodreads_genres

\* what one "async with session.get(...)" can end in: a status (a 200 whose
\* page parses to genres or to none), an aiohttp.ClientError, a timeout
GoodreadsEvents ==
    {[kind |-> "status", status |-> c, genres |-> <<>>] : c \in {200, 404, 429, 503}}
    \cup {[kind |-> "status", status |-> 200, genres |-> <<Fi>>]}
    \cup {[kind |-> "client_error"], [kind |-> "timeout"]}

\* random.uniform(a, b), in half seconds: its two ends
Uniform(a, b) == {a, b}

GoodreadsReturn(genres) == [returns |-> TRUE, genres |-> genres, waits |-> {}]
GoodreadsSleep(waits) == [returns |-> FALSE, genres |-> <<>>, waits |-> waits]

GoodreadsRetryingNotFound(event, attempt) ==
    IF event.kind = "status"
    THEN IF event.status = 200
         THEN IF event.genres # <<>> THEN GoodreadsReturn(event.genres)
              ELSE GoodreadsReturn(<<>>)
         ELSE IF event.status = 429
              THEN GoodreadsSleep({2 * (2 ^ attempt) + j : j \in Uniform(2, 6)})
         ELSE GoodreadsSleep({attempt + 1})
    ELSE GoodreadsSleep({(2 ^ attempt) + j : j \in Uniform(0, 1)})

\* the body of "for attempt in range(max_retries)": return a list, or sleep
\* (for one of the given numbers of half seconds) and go round again
goodreads_attempt(event, attempt) ==
    IF event.kind = "status"
    THEN IF event.status = 200
         THEN IF event.genres # <<>> THEN GoodreadsReturn(event.genres)
              ELSE GoodreadsReturn(<<>>)
         ELSE IF event.status = 429
              THEN GoodreadsSleep({2 * (2 ^ attempt) + j : j \in Uniform(2, 6)})
         ELSE IF event.status = 404 THEN GoodreadsReturn(<<>>)
         ELSE GoodreadsSleep({attempt + 1})
    ELSE GoodreadsSleep({(2 ^ attempt) + j : j \in Uniform(0, 1)})

\* fetch_goodreads_genres(session, goodreads_id, max_retries) is called
GoodreadsInit ==
    \E goodreads_id \in {<<>>, <<"1">>}, max_retries \in 0..MaxRetries :
        call = [fn |-> "fetch_goodreads_genres", goodreads_id |-> goodreads_id,
                max_retries |-> max_retries, attempt |-> 0, pc |-> "start",
                log |-> <<>>, result |-> Pending]

\* "if not goodreads_id: return []"
GoodreadsEnter ==
    /\ call.pc = "start"
    /\ IF call.goodreads_id = <<>>
       THEN call' = [call EXCEPT !.pc = "returned", !.result = Some(<<>>)]
       ELSE call' = [call EXCEPT !.pc = "loop"]

\* one iteration of the loop: the request, then the return or the sleep
GoodreadsAttempt ==
    /\ call.pc = "loop"
    /\ call.attempt < call.max_retries
    /\ \E event \in GoodreadsEvents :
          LET r == goodreads_attempt(event, call.attempt)
              requested == Append(call.log, [op |-> "request", event |-> event])
          IN  IF r.returns
              THEN call' = [call EXCEPT !.pc = "returned", !.log = requested,
                                        !.result = Some(r.genres)]
              ELSE \E wait \in r.waits :
                      call' = [call EXCEPT
                                  !.log = Append(requested, [op |-> "sleep", wait |-> wait]),
                                  !.attempt = @ + 1]

\* "return []" after the loop
GoodreadsExhausted ==
    /\ call.pc = "loop"
    /\ call.attempt >= call.max_retries
    /\ call' = [call EXCEPT !.pc = "returned", !.result = Some(<<>>)]

\* ------------------------------------------------------------------------
\* cdk/lambda_code/orchestrator: the correlation of results with books, on
\* jobs whose books have no goodreads_id and a "-" in title or author

MaxJob == 2

KeyOne == BookInfo(<<>>, <<"a", "-", "b">>, <<"c">>, <<>>, <<>>)
KeyTwo == BookInfo(<<>>, <<"a">>, <<"b", "-", "c">>, <<>>, <<>>)
KeyCatalog == {BookOne, BookTwo, KeyOne, KeyTwo}

\* the jobs: lists of distinct books
Jobs(n) ==
    {bs \in UNION {[1..k -> KeyCatalog] : k \in 1..n} :
        \A i \in DOMAIN bs : \A j \in DOMAIN bs : i # j => bs[i] # bs[j]}

\* one chunk holding the whole job has been dispatched and every invocation
\* has come back
KeysInit ==
    \E bs \in Jobs(MaxJob) :
        \E outcomes \in [DOMAIN bs -> UNION {LambdaOutcomes(b) : b \in KeyCatalog}] :
            /\ \A i \in DOMAIN bs : outcomes[i] \in LambdaOutcomes(bs[i])
            /\ call = [fn |-> "create_final_dashboard_json", original_books |-> bs,
                       outcomes |-> outcomes, results |-> Pending, dashboard |-> Pending]

\* process_chunk_simultaneously collects the results and
\* create_final_dashboard_json correlates them with the books
KeysDashboard ==
    /\ call.dashboard = Pending
    /\ LET results == process_chunk_simultaneously(call.original_books, call.outcomes)
       IN  call' = [call EXCEPT
                       !.results = Some(results),
                       !.dashboard = Some(create_final_dashboard_json(
                                              results, call.original_books))]

\* ------------------------------------------------------------------------
\* genres/genre_merger.py: merge_and_normalize on raw labels

MaxGoogle == 2
MaxOpenLib == 1

\* raw labels: renderings of one label in several cases, with padding, with
\* the noise prefixes (once, twice, both, followed by "-" and a tab), short
\* and numeric ones, and date-like ones
RawLabels ==
    {Fi, fi, Sf, <<"s", "f">>, <<"S", "F">>,
     <<" ">> \o Fi \o <<" ">>,
     NytFi,
     prefixes_to_remove[1] \o NytFi,
     prefixes_to_remove[2] \o <<" ">> \o NytFi,
     prefixes_to_remove[1] \o <<"-", "\t">> \o Fi,
     prefixes_to_remove[1] \o Num,
     prefixes_to_remove[1] \o <<"a">>,
     Num, <<"a">>, <<" ">>, <<>>,
     <<"x">> \o CenturySuffix,
     Tail(CenturySuffix),
     <<"x", "-">> \o Tail(CenturySuffix)}

LabelLists(n) == UNION {[1..k -> RawLabels] : k \in 0..n}

\* the two lists handed to merge_and_normalize
NormalizeInit ==
    \E google_genres \in LabelLists(MaxGoogle), openlib_genres \in LabelLists(MaxOpenLib) :
        call = [fn |-> "merge_and_normalize", google_genres |-> google_genres,
                openlib_genres |-> openlib_genres,
                result |-> Pending, swapped |-> Pending, again |-> Pending]

\* merge_and_normalize(google_genres, openlib_genres)
NormalizeCall ==
    /\ call.result = Pending
    /\ call' = [call EXCEPT !.result =
                   Some(merge_and_normalize(call.google_genres, call.openlib_genres))]

\* merge_and_normalize(openlib_genres, google_genres)
NormalizeSwapped ==
    /\ call.swapped = Pending
    /\ call' = [call EXCEPT !.swapped =
                   Some(merge_and_normalize(call.openlib_genres, call.google_genres))]

\* merge_and_normalize(result, [])
NormalizeAgain ==
    /\ call.result # Pending
    /\ call.again = Pending
    /\ call' = [call EXCEPT !.again = Some(merge_and_normalize(call.result[1], <<>>))]

\* ------------------------------------------------------------------------
\* genres/genre_merger.py: the loop of merge_and_normalize, one raw label at
\* a time. "for existing in normalized_genres" visits a set, whose iteration
\* order the language does not fix: the rendering found is any member of the
\* set equal to the new label ignoring case.

NormalizeLoopInit ==
    \E google_genres \in LabelLists(MaxGoogle), openlib_genres \in LabelLists(MaxOpenLib) :
        call = [fn |-> "merge_and_normalize_loop", google_genres |-> google_genres,
                openlib_genres |-> openlib_genres,
                all_genres |-> google_genres \o openlib_genres,
                normalized_genres |-> {}, result |-> Pending]

\* the iteration that adds the better rendering without removing the kept one
NormalizeIterateKeepingBoth ==
    /\ call.result = Pending
    /\ call.all_genres # <<>>
    /\ LET genre == Head(call.all_genres)
           clean_genre == RemovePrefixes(Strip(genre), 1)
           same == {e \in call.normalized_genres : Lower(e) = Lower(clean_genre)}
           skipped == \/ Strip(genre) = <<>>
                      \/ Len(clean_genre) < 2
                      \/ IsDigit(clean_genre)
                      \/ EndsWith(clean_genre, CenturySuffix)
       IN  \E kept \in
               IF skipped THEN {call.normalized_genres}
               ELSE IF same = {} THEN {call.normalized_genres \cup {clean_genre}}
               ELSE {IF IsTitle(clean_genre) /\ ~IsTitle(existing_genre)
                     THEN call.normalized_genres \cup {clean_genre}
                     ELSE call.normalized_genres : existing_genre \in same} :
               call' = [call EXCEPT !.all_genres = Tail(call.all_genres),
                                    !.normalized_genres = kept]

\* one iteration of "for genre in all_genres"
NormalizeIterate ==
    /\ call.result = Pending
    /\ call.all_genres # <<>>
    /\ LET genre == Head(call.all_genres)
           clean_genre == RemovePrefixes(Strip(genre), 1)
           same == {e \in call.normalized_genres : Lower(e) = Lower(clean_genre)}
           skipped == \/ Strip(genre) = <<>>
                      \/ Len(clean_genre) < 2
                      \/ IsDigit(clean_genre)
                      \/ EndsWith(clean_genre, CenturySuffix)
       IN  \E kept \in
               IF skipped THEN {call.normalized_genres}
               ELSE IF same = {} THEN {call.normalized_genres \cup {clean_genre}}
               ELSE {IF IsTitle(clean_genre) /\ ~IsTitle(existing_genre)
                     THEN (call.normalized_genres \ {existing_genre}) \cup {clean_genre}
                     ELSE call.normalized_genres : existing_genre \in same} :
               call' = [call EXCEPT !.all_genres = Tail(call.all_genres),
                                    !.normalized_genres = kept]

\* return sorted(list(normalized_genres))
NormalizeReturn ==
    /\ call.result = Pending
    /\ call.all_genres = <<>>
    /\ call' = [call EXCEPT !.result = Some(Sorted(call.normalized_genres))]

\* ------------------------------------------------------------------------
\* lambda_worker.py, genres/genre_enricher.py and genres/api_caller.py: the
\* worker Lambda "goodreads-genre-worker"

\* RateLimiter.__init__: "self.min_interval = 1.0 / calls_per_second" raises
\* ZeroDivisionError for calls_per_second = 0.0
RateLimiter(calls_per_second) ==
    IF calls_per_second = 0
    THEN [raised |-> TRUE, error |-> "float division by zero"]
    ELSE [raised |-> FALSE, min_interval |-> min_interval(calls_per_second),
          last_called |-> 0]

\* GenreEnricher.enrich_book on what the two sources yield for the book
enrich_book(book, google, openlib) ==
    LET g == IF google.ok THEN google.genres ELSE <<>>
        o == IF openlib.ok THEN openlib.genres ELSE <<>>
    IN  [input_info |-> book,
         google_response |-> google.ok,
         openlib_response |-> openlib.ok,
         processed_google_genres |-> g,
         processed_openlib_genres |-> o,
         final_genres |-> merge_and_normalize(g, o),
         processing_log |->
             <<"Starting enrichment pipeline",
               IF google.ok THEN "Google Books: Success" ELSE "Google Books: No data found",
               IF openlib.ok THEN "Open Library Edition: Success"
               ELSE "Open Library: No data found",
               "Final: merged and normalized genres">>]

\* the "response" dict of lambda_handler
EnrichmentResponse(enriched_book) ==
    [final_genres |-> enriched_book.final_genres,
     google_response |-> enriched_book.google_response,
     openlib_edition_response |-> enriched_book.openlib_response,
     processed_google_genres |-> enriched_book.processed_google_genres,
     processed_openlib_genres |-> enriched_book.processed_openlib_genres,
     processing_log |-> enriched_book.processing_log]

\* lambda_handler(event, context): GenreEnricher(rate_limit=0.0) builds
\* APICaller(rate_limit=0.0), which builds RateLimiter(0.0); an exception in
\* the try block is answered with the error dict
lambda_handler(event, google, openlib) ==
    LET book_data == Get(event, "book", EmptyDict)
        book == BookInfo(Get(book_data, "goodreads_id", <<>>),
                         Get(book_data, "title", <<>>),
                         Get(book_data, "author", <<>>),
                         Get(book_data, "isbn13", <<>>),
                         Get(book_data, "isbn", <<>>))
        rate_limiter == RateLimiter(0)
    IN  IF rate_limiter.raised
        THEN [errorMessage |-> rate_limiter.error, errorType |-> "ZeroDivisionError"]
        ELSE EnrichmentResponse(enrich_book(book, google, openlib))

\* ------------------------------------------------------------------------
\* genres/pipeline/enricher.py: AdaptiveGenreEnricher, one Lambda per book

\* What lambda_client.invoke followed by json.loads can give for one book:
\* invoke raises; the payload is not JSON; the payload is JSON null; the
\* payload is a dict: the answer of lambda_worker.lambda_handler, the
\* enrichment response of a worker whose enricher was constructed, a
\* response without the optional keys, or a Lambda-level error.
WorkerOutcomes(book) ==
    {[kind |-> "raise"], [kind |-> "unparsable"], [kind |-> "null"]}
    \cup {[kind |-> "payload", worker |-> "lambda_worker",
           payload |-> lambda_handler([book |-> book], google, openlib)] :
             google \in GoogleOutcomes(book), openlib \in OpenLibOutcomes(book)}
    \cup {[kind |-> "payload", worker |-> "other",
           payload |-> EnrichmentResponse(enrich_book(book, google, openlib))] :
             google \in GoogleOutcomes(book), openlib \in OpenLibOutcomes(book)}
    \cup {[kind |-> "payload", worker |-> "other", payload |-> [final_genres |-> <<Fi>>]],
          [kind |-> "payload", worker |-> "other", payload |-> LambdaError]}

\* _lambda_response_to_enriched_book
lambda_response_to_enriched_book(lambda_response, original_book) ==
    [input_info |-> original_book,
     google_response |-> Get(lambda_response, "google_response", FALSE),
     openlib_response |-> Get(lambda_response, "openlib_edition_response", FALSE),
     processed_google_genres |-> Get(lambda_response, "processed_google_genres", <<>>),
     processed_openlib_genres |-> Get(lambda_response, "processed_openlib_genres", <<>>),
     final_genres |-> Get(lambda_response, "final_genres", <<>>),
     processing_log |-> Get(lambda_response, "processing_log", <<>>)]

\* _invoke_worker_lambda: raised = TRUE when an exception leaves the coroutine
\* (it is logged and raised again)
invoke_worker_lambda(book, outcome) ==
    IF \/ outcome.kind \in {"raise", "unparsable", "null"}
       \/ "errorMessage" \in DOMAIN outcome.payload
    THEN [raised |-> TRUE]
    ELSE [raised |-> FALSE,
          value |-> lambda_response_to_enriched_book(outcome.payload, book)]

\* the conversion that leaves out the books whose invocation raised
SwarmDroppingFailures(bs, outcomes) ==
    LET results == [i \in DOMAIN bs |-> invoke_worker_lambda(bs[i], outcomes[i])]
        kept == SelectSeq([i \in DOMAIN bs |-> i], LAMBDA i : ~results[i].raised)
    IN  [k \in DOMAIN kept |-> results[kept[k]].value]

\* _enrich_with_lambda_swarm: gather(*tasks, return_exceptions=True), then
\* an empty EnrichedBook for every result that is an exception
enrich_with_lambda_swarm(bs, outcomes) ==
    LET results == [i \in DOMAIN bs |-> invoke_worker_lambda(bs[i], outcomes[i])]
    IN  [i \in DOMAIN bs |->
            IF results[i].raised THEN EnrichedBook(bs[i]) ELSE results[i].value]

\* a call of _enrich_with_lambda_swarm: every task created, none finished
SwarmInit ==
    \E bs \in BookLists(MaxBatch) :
        call = [fn |-> "_enrich_with_lambda_swarm", books |-> bs,
                outcomes |-> [i \in DOMAIN bs |-> Pending],
                enriched_books |-> Pending]

\* the invocation for book i ends, in any order among the tasks
SwarmInvocationEnds(i) ==
    /\ call.outcomes[i] = Pending
    /\ \E outcome \in WorkerOutcomes(call.books[i]) :
          call' = [call EXCEPT !.outcomes[i] = Some(outcome)]

\* gather returns and the results are converted
SwarmReturn ==
    /\ call.enriched_books = Pending
    /\ \A i \in DOMAIN call.books : call.outcomes[i] # Pending
    /\ call' = [call EXCEPT !.enriched_books =
                   Some(enrich_with_lambda_swarm(
                            call.books, [i \in DOMAIN call.books |-> call.outcomes[i][1]]))]

\* ------------------------------------------------------------------------
\* cdk/lambda_code/book_processor and aggregator: the results of a job are
\* stored one by one, then an S3 completion event or the scheduled check
\* reaches the aggregator.

MaxDeliveries == 2

\* DashTwin is another book than DashTwo (another author, another Goodreads
\* id) with the same ISBN and the same title
DashTwin == [DashTwo EXCEPT !.goodreads_id = <<"3">>, !.author = <<"x">>]

StoreCatalog == {DashOne, DashTwo, DashTwin}

\* the books of a job, each of them once
StoreLists(n) ==
    {bs \in UNION {[1..k -> StoreCatalog] : k \in 0..n} :
        \A i, j \in DOMAIN bs : bs[i] = bs[j] => i = j}

\* the job as the uploader left it or as an earlier aggregation left it,
\* nothing stored yet; hist.deliveries counts the messages handled per book
EventsInit ==
    /\ now = 0
    /\ \E bs \in StoreLists(MaxOriginal) :
          \E status \in {Pending} \cup {Some(r) : r \in StatusRecords(Len(bs))} :
             \E original_books \in {Pending, Some([Body |-> bs, LastModified |-> 0])} :
                /\ s3 = [status |-> status, original_books |-> original_books,
                         enriched |-> EmptyDict, data |-> Pending]
                /\ hist = [original_books |-> bs, status |-> status,
                           original_stored |-> original_books # Pending,
                           deliveries |-> [i \in DOMAIN bs |-> 0]]
    /\ inv = <<InvIdle>>

\* book_processor lambda_handler for the message of book i, delivered at most
\* MaxDeliveries times: the enrichment, then store_enriched_result
ProcessorStores(i) ==
    /\ inv[1].pc = "idle"
    /\ hist.deliveries[i] < MaxDeliveries
    /\ \E choice \in ProcessorChoices \ {"none"} :
          s3' = [s3 EXCEPT !.enriched =
                    store_enriched_result(s3.enriched, hist.original_books[i],
                                          ChosenResult(hist.original_books[i], choice))]
    /\ hist' = [hist EXCEPT !.deliveries[i] = @ + 1]
    /\ UNCHANGED <<inv, now, merge>>

\* ------------------------------------------------------------------------
\* Specifications.

\* genres/pipeline/enricher.py: one call of enrich_books_batch
PoolNext ==
    \/ \E i \in DOMAIN books : Acquire(i) /\ UNCHANGED <<orch, aggVars, callerVars>>
    \/ \E i \in DOMAIN books : Finish(i) /\ UNCHANGED <<orch, aggVars, callerVars>>
    \/ ReturnGathered /\ UNCHANGED <<orch, aggVars, callerVars>>

InitPool == PoolInit /\ OrchIdle /\ AggIdle /\ LimiterIdle /\ CallIdle

SpecPool == InitPool /\ [][PoolNext]_vars

\* genres/async_genre_enricher.py under genres/async_pipeline.py
AsyncPipelineNext ==
    \/ \E i \in DOMAIN books : Acquire(i) /\ UNCHANGED <<orch, aggVars, callerVars>>
    \/ \E i \in DOMAIN books : Finish(i) /\ UNCHANGED <<orch, aggVars, callerVars>>
    \/ ReturnAsCompleted /\ UNCHANGED <<orch, aggVars, callerVars>>
    \/ TransferEnriched /\ UNCHANGED <<orch, aggVars, callerVars>>

SpecAsyncPipeline == InitPool /\ [][AsyncPipelineNext]_vars

\* genres/pipeline/enricher.py: one enrich_books_batch, await by await
EnrichNext ==
    \/ \E i \in DOMAIN books : Acquire(i) /\ UNCHANGED <<orch, aggVars, callerVars>>
    \/ \E i \in DOMAIN books : FetchGoogle(i) /\ UNCHANGED <<orch, aggVars, callerVars>>
    \/ \E i \in DOMAIN books : FetchOpenLibrary(i) /\ UNCHANGED <<orch, aggVars, callerVars>>
    \/ \E i \in DOMAIN books : MergeAndRelease(i) /\ UNCHANGED <<orch, aggVars, callerVars>>
    \/ ReturnGathered /\ UNCHANGED <<orch, aggVars, callerVars>>

InitEnrich == EnrichInit /\ OrchIdle /\ AggIdle /\ LimiterIdle /\ CallIdle

SpecEnrich == InitEnrich /\ [][EnrichNext]_vars

\* the event loop runs every task that can run; each fetch ends, at the
\* latest when the session's ClientTimeout(total=30) expires
SpecEnrichFair ==
    /\ SpecEnrich
    /\ \A i \in 1..MaxBatch :
          /\ WF_vars(/\ i \in DOMAIN books
                     /\ Acquire(i)
                     /\ UNCHANGED <<orch, aggVars, callerVars>>)
          /\ WF_vars(/\ i \in DOMAIN books
                     /\ FetchGoogle(i)
                     /\ UNCHANGED <<orch, aggVars, callerVars>>)
          /\ WF_vars(/\ i \in DOMAIN books
                     /\ FetchOpenLibrary(i)
                     /\ UNCHANGED <<orch, aggVars, callerVars>>)
          /\ WF_vars(/\ i \in DOMAIN books
                     /\ MergeAndRelease(i)
                     /\ UNCHANGED <<orch, aggVars, callerVars>>)

\* genres/api_caller.py: the threads sharing one RateLimiter
LimiterNext ==
    \/ LimiterTick /\ UNCHANGED <<poolVars, orch, aggVars, call>>
    \/ \E c \in 1..MaxCallers : WaitRead(c) /\ UNCHANGED <<poolVars, orch, aggVars, call>>
    \/ \E c \in 1..MaxCallers : WaitSleep(c) /\ UNCHANGED <<poolVars, orch, aggVars, call>>
    \/ \E c \in 1..MaxCallers : WaitWrite(c) /\ UNCHANGED <<poolVars, orch, aggVars, call>>

InitLimiter == PoolIdle /\ OrchIdle /\ AggIdle /\ LimiterInit /\ CallIdle

SpecLimiter == InitLimiter /\ [][LimiterNext]_vars

\* genres/api_caller.py: one call of APICaller.get
GetNext ==
    \/ GetWait /\ UNCHANGED <<poolVars, orch, aggVars, limiter>>
    \/ GetRequest /\ UNCHANGED <<poolVars, orch, aggVars, limiter>>
    \/ GetExhausted /\ UNCHANGED <<poolVars, orch, aggVars, limiter>>

InitGet == PoolIdle /\ OrchIdle /\ AggIdle /\ LimiterIdle /\ GetInit

SpecGet == InitGet /\ [][GetNext]_vars

\* the Google Books fetchers: one call of fetch_google_data or of
\* fetch_google_data_async
GoogleNext ==
    \/ GoogleQuery /\ UNCHANGED <<poolVars, orch, aggVars, limiter>>
    \/ GoogleNoData /\ UNCHANGED <<poolVars, orch, aggVars, limiter>>
    \/ AsyncGoogleFetch /\ UNCHANGED <<poolVars, orch, aggVars, limiter>>

InitGoogle ==
    PoolIdle /\ OrchIdle /\ AggIdle /\ LimiterIdle /\ (GoogleInit \/ AsyncGoogleInit)

SpecGoogle == InitGoogle /\ [][GoogleNext]_vars

\* genres/sources/goodreads.py: one call of fetch_goodreads_genres
GoodreadsNext ==
    \/ GoodreadsEnter /\ UNCHANGED <<poolVars, orch, aggVars, limiter>>
    \/ GoodreadsAttempt /\ UNCHANGED <<poolVars, orch, aggVars, limiter>>
    \/ GoodreadsExhausted /\ UNCHANGED <<poolVars, orch, aggVars, limiter>>

InitGoodreads == PoolIdle /\ OrchIdle /\ AggIdle /\ LimiterIdle /\ GoodreadsInit

SpecGoodreads == InitGoodreads /\ [][GoodreadsNext]_vars

\* cdk/lambda_code/orchestrator: the final correlation of one job
KeysNext == KeysDashboard /\ UNCHANGED <<poolVars, orch, aggVars, limiter>>

InitKeys == PoolIdle /\ OrchIdle /\ AggIdle /\ LimiterIdle /\ KeysInit

SpecKeys == InitKeys /\ [][KeysNext]_vars

\* genres/genre_merger.py: calls of merge_and_normalize on one pair of lists
NormalizeNext ==
    \/ NormalizeCall /\ UNCHANGED <<poolVars, orch, aggVars, limiter>>
    \/ NormalizeSwapped /\ UNCHANGED <<poolVars, orch, aggVars, limiter>>
    \/ NormalizeAgain /\ UNCHANGED <<poolVars, orch, aggVars, limiter>>

InitNormalize == PoolIdle /\ OrchIdle /\ AggIdle /\ LimiterIdle /\ NormalizeInit

SpecNormalize == InitNormalize /\ [][NormalizeNext]_vars

\* genres/genre_merger.py: one call of merge_and_normalize, label by label
NormalizeLoopNext ==
    \/ NormalizeIterate /\ UNCHANGED <<poolVars, orch, aggVars, limiter>>
    \/ NormalizeReturn /\ UNCHANGED <<poolVars, orch, aggVars, limiter>>

InitNormalizeLoop == PoolIdle /\ OrchIdle /\ AggIdle /\ LimiterIdle /\ NormalizeLoopInit

SpecNormalizeLoop == InitNormalizeLoop /\ [][NormalizeLoopNext]_vars

\* genres/pipeline/enricher.py: one call of _enrich_with_lambda_swarm
SwarmNext ==
    \/ \E i \in DOMAIN call.books :
          SwarmInvocationEnds(i) /\ UNCHANGED <<poolVars, orch, aggVars, limiter>>
    \/ SwarmReturn /\ UNCHANGED <<poolVars, orch, aggVars, limiter>>

InitSwarm == PoolIdle /\ OrchIdle /\ AggIdle /\ LimiterIdle /\ SwarmInit

SpecSwarm == InitSwarm /\ [][SwarmNext]_vars

\* book_processor and aggregator: the stores of a job followed by one
\* event-driven run of the aggregator
EventsNext ==
    \/ \E i \in DOMAIN hist.original_books :
          ProcessorStores(i) /\ UNCHANGED <<poolVars, orch, callerVars>>
    \/ \E k \in DOMAIN inv : \E kind \in {"s3_event", "scheduled"} :
          /\ kind = "s3_event" => DOMAIN s3.enriched # {}
          /\ Trigger(k, kind)
          /\ UNCHANGED <<poolVars, orch, callerVars>>
    \/ \E k \in DOMAIN inv : ListJobs(k) /\ UNCHANGED <<poolVars, orch, callerVars>>
    \/ \E k \in DOMAIN inv : ReadyGetStatus(k) /\ UNCHANGED <<poolVars, orch, callerVars>>
    \/ \E k \in DOMAIN inv : ReadyHead(k) /\ UNCHANGED <<poolVars, orch, callerVars>>
    \/ \E k \in DOMAIN inv : ReadyList(k) /\ UNCHANGED <<poolVars, orch, callerVars>>
    \/ \E k \in DOMAIN inv : StatusGet(k) /\ UNCHANGED <<poolVars, orch, callerVars>>
    \/ \E k \in DOMAIN inv : StatusPut(k) /\ UNCHANGED <<poolVars, orch, callerVars>>
    \/ \E k \in DOMAIN inv : LoadOriginal(k) /\ UNCHANGED <<poolVars, orch, callerVars>>
    \/ \E k \in DOMAIN inv : ListEnriched(k) /\ UNCHANGED <<poolVars, orch, callerVars>>
    \/ \E k \in DOMAIN inv : LoadEnriched(k) /\ UNCHANGED <<poolVars, orch, callerVars>>
    \/ \E k \in DOMAIN inv : PutDashboard(k) /\ UNCHANGED <<poolVars, orch, callerVars>>
    \/ \E k \in DOMAIN inv : CleanupList(k) /\ UNCHANGED <<poolVars, orch, callerVars>>
    \/ \E k \in DOMAIN inv : CleanupObjects(k) /\ UNCHANGED <<poolVars, orch, callerVars>>
    \/ \E k \in DOMAIN inv : CleanupOriginal(k) /\ UNCHANGED <<poolVars, orch, callerVars>>

InitEvents == PoolIdle /\ OrchIdle /\ MergeIdle /\ EventsInit /\ LimiterIdle /\ CallIdle

SpecEvents == InitEvents /\ [][EventsNext]_vars

\* cdk/lambda_code/orchestrator: one run of process_csv_pipeline
OrchNext ==
    \/ OrchLaunchChunk
    \/ \E i \in DOMAIN orch.book_infos : OrchInvocationEnds(i)
    \/ OrchChunkDone
    \/ OrchFinish

InitOrch == PoolIdle /\ OrchInit /\ AggIdle /\ LimiterIdle /\ CallIdle

SpecOrch == InitOrch /\ [][OrchNext]_vars

\* every invocation comes back: the book processor runs under the Lambda
\* timeout of its function and invoke is a RequestResponse call
SpecOrchFair ==
    /\ SpecOrch
    /\ WF_vars(OrchLaunchChunk)
    /\ \A i \in 1..MaxBooks : WF_vars(OrchInvocationTimesOut(i))
    /\ WF_vars(OrchChunkDone)
    /\ WF_vars(OrchFinish)

\* cdk/lambda_code/aggregator: the invocations of lambda_handler on one job
AggNext ==
    \/ \E k \in DOMAIN inv : \E kind \in EventKinds : Trigger(k, kind) /\ UNCHANGED <<poolVars, orch, callerVars>>
    \/ \E k \in DOMAIN inv : ListJobs(k) /\ UNCHANGED <<poolVars, orch, callerVars>>
    \/ \E k \in DOMAIN inv : ReadyGetStatus(k) /\ UNCHANGED <<poolVars, orch, callerVars>>
    \/ \E k \in DOMAIN inv : ReadyHead(k) /\ UNCHANGED <<poolVars, orch, callerVars>>
    \/ \E k \in DOMAIN inv : ReadyList(k) /\ UNCHANGED <<poolVars, orch, callerVars>>
    \/ \E k \in DOMAIN inv : TimeoutGetStatus(k) /\ UNCHANGED <<poolVars, orch, callerVars>>
    \/ \E k \in DOMAIN inv : TimeoutHead(k) /\ UNCHANGED <<poolVars, orch, callerVars>>
    \/ \E k \in DOMAIN inv : StatusGet(k) /\ UNCHANGED <<poolVars, orch, callerVars>>
    \/ \E k \in DOMAIN inv : StatusPut(k) /\ UNCHANGED <<poolVars, orch, callerVars>>
    \/ \E k \in DOMAIN inv : LoadOriginal(k) /\ UNCHANGED <<poolVars, orch, callerVars>>
    \/ \E k \in DOMAIN inv : ListEnriched(k) /\ UNCHANGED <<poolVars, orch, callerVars>>
    \/ \E k \in DOMAIN inv : LoadEnriched(k) /\ UNCHANGED <<poolVars, orch, callerVars>>
    \/ \E k \in DOMAIN inv : PutDashboard(k) /\ UNCHANGED <<poolVars, orch, callerVars>>
    \/ \E k \in DOMAIN inv : CleanupList(k) /\ UNCHANGED <<poolVars, orch, callerVars>>
    \/ \E k \in DOMAIN inv : CleanupObjects(k) /\ UNCHANGED <<poolVars, orch, callerVars>>
    \/ \E k \in DOMAIN inv : CleanupOriginal(k) /\ UNCHANGED <<poolVars, orch, callerVars>>
    \/ Tick /\ UNCHANGED <<poolVars, orch, callerVars>>

InitAgg == PoolIdle /\ OrchIdle /\ MergeIdle /\ AggInit /\ LimiterIdle /\ CallIdle

SpecAgg == InitAgg /\ [][AggNext]_vars

\* cdk/lambda_code/aggregator: one invocation of lambda_handler on one job
InitSafety == PoolIdle /\ OrchIdle /\ MergeIdle /\ SafetyInit /\ LimiterIdle /\ CallIdle

SpecSafety == InitSafety /\ [][AggNext]_vars

\* cdk/lambda_code/aggregator: one call of merge_enriched_data
MergeNext == MergeCall

InitMerge == PoolIdle /\ OrchIdle /\ S3Idle /\ MergeInit /\ LimiterIdle /\ CallIdle

SpecMerge == InitMerge /\ [][MergeNext]_vars


\* ------------------------------------------------------------------------
\* Claims.

\* Some task completed before a task of a different book that precedes it
\* in the batch.
CompletedOutOfOrder ==
    \E k \in DOMAIN order : \E m \in DOMAIN order :
        k < m /\ order[k] > order[m] /\ books[order[k]] # books[order[m]]

\* C1: for every batch and every completion order, enrich_books_batch of
\* genres/pipeline/enricher.py returns a list as long as its input whose i-th
\* element has input_info equal to books[i].
C1_GatherKeepsInputOrder ==
    returned # Pending =>
        /\ Len(returned[1]) = Len(books)
        /\ \A i \in DOMAIN books : returned[1][i].input_info = books[i]

\* C1 witness: a batch has been returned whose tasks completed out of order.
C1_Witness == returned # Pending /\ CompletedOutOfOrder

\* C2: for every batch and every completion order, element i of the list
\* returned by enrich_books_batch of genres/async_genre_enricher.py is the
\* enrichment of books[i], so the positional zip of AsyncBookPipeline gives
\* each book the final_genres fetched for that same book.
C2_ZipPairsBookWithOwnEnrichment ==
    enhanced_books # Pending =>
        /\ Len(enhanced_books[1]) = Len(books)
        /\ \A i \in DOMAIN books :
              /\ returned[1][i].input_info = books[i]
              /\ enhanced_books[1][i].final_genres = enriched[i][1].final_genres


\* The Lambda outcomes of all books, once every invocation has ended.
OrchOutcomes == [i \in DOMAIN orch.book_infos |-> orch.outcomes[i][1]]

\* C3: process_chunk_simultaneously returns exactly one outcome per chunk
\* member, at the member's index; a member whose invocation raised, returned a
\* Lambda-level errorMessage or an unparsable payload gets a failure record
\* (success False, empty final_genres, error_message set, book_id the book's
\* correlation key), and every other member keeps the processor's response.
C3_ChunkFailuresAreRecords ==
    /\ Len(orch.all_results) =
           Min(orch.chunk_index * orch.chunk_size, Len(orch.book_infos))
    /\ \A i \in DOMAIN orch.all_results :
          LET r == orch.all_results[i]
              o == orch.outcomes[i][1]
          IN  IF o.kind \in {"raise", "unparsable"} \/ "errorMessage" \in DOMAIN o.payload
              THEN /\ Get(r, "success", TRUE) = FALSE
                   /\ Get(r, "final_genres", None) = <<>>
                   /\ Get(r, "error_message", None) # None
                   /\ Get(r, "book_id", None) = CorrelationKey(orch.book_infos[i])
              ELSE r = o.payload

\* C3 witness: a chunk has been collected in which one member failed at the
\* Lambda level and another member's response came through.
C3_Witness ==
    \E i \in DOMAIN orch.all_results : \E j \in DOMAIN orch.all_results :
        /\ i \div orch.chunk_size = j \div orch.chunk_size
        /\ Get(orch.all_results[i], "success", TRUE) = FALSE
        /\ orch.outcomes[i][1].kind = "payload"
        /\ Get(orch.all_results[j], "statusCode", 0) = 200

\* The invocation for book i returned a successful enrichment with genres.
EnrichedWithGenres(i) ==
    /\ orch.outcomes[i][1].kind = "payload"
    /\ Get(orch.outcomes[i][1].payload, "statusCode", 0) = 200
    /\ orch.outcomes[i][1].payload.body.final_genres # <<>>

\* C4: in the orchestrator's final dashboard the entries are in the original
\* book order, and every book whose invocation returned a successful
\* enrichment with non-empty final_genres carries exactly those final_genres
\* and genre_enrichment_success = True.
C4_DashboardCarriesEnrichment ==
    orch.pc = "done" =>
        /\ Len(orch.dashboard[1].books) = Len(orch.book_infos)
        /\ \A i \in DOMAIN orch.book_infos :
              /\ orch.dashboard[1].books[i].title = orch.book_infos[i].title
              /\ orch.dashboard[1].books[i].author = orch.book_infos[i].author
              /\ EnrichedWithGenres(i) =>
                    /\ orch.dashboard[1].books[i].final_genres =
                           orch.outcomes[i][1].payload.body.final_genres
                    /\ orch.dashboard[1].books[i].genre_enrichment_success

\* C5: with the same per-book invocation outcomes, every chunk size collects
\* the all_results sequence and produces the dashboard books that processing
\* the whole list as a single chunk does.
C5_ChunkSizeIndependent ==
    orch.pc = "done" =>
        LET single == process_chunk_simultaneously(orch.book_infos, OrchOutcomes)
        IN  /\ orch.all_results = single
            /\ orch.dashboard[1].books =
                   create_final_dashboard_json(single, orch.book_infos).books

\* C5 witness: a run of several chunks, the last one shorter, has finished
\* with a failed and a successful invocation.
C5_Witness ==
    /\ orch.pc = "done"
    /\ orch.chunk_index >= 2
    /\ Len(orch.book_infos) % orch.chunk_size # 0
    /\ \E i \in DOMAIN orch.book_infos : InvocationFailed(orch.outcomes[i][1])
    /\ \E i \in DOMAIN orch.book_infos : ~InvocationFailed(orch.outcomes[i][1])

\* The indices of the collected results stored under the key of book i.
ResultsFor(i) ==
    {j \in DOMAIN orch.all_results :
        ResultKey(orch.all_results[j]) = CorrelationKey(orch.book_infos[i])}

Last(S) == CHOOSE j \in S : \A k \in S : k <= j

\* C7: aggregation is idempotent by correlation key: applied to results in
\* which every outcome occurs twice, create_final_dashboard_json yields the
\* same books list, with exactly one entry per original book, the entry of a
\* book taken from the last outcome collected under its key.
C7_AggregationIdempotent ==
    orch.pc = "done" =>
        LET d == orch.dashboard[1].books
            twice == create_final_dashboard_json(orch.all_results \o orch.all_results,
                                                 orch.book_infos).books
        IN  /\ twice = d
            /\ Len(d) = Len(orch.book_infos)
            /\ \A i \in DOMAIN orch.book_infos :
                  ResultsFor(i) # {} =>
                      LET last == orch.all_results[Last(ResultsFor(i))]
                      IN  /\ d[i].error_message = Get(last, "error_message", None)
                          /\ d[i].final_genres = Get(last, "final_genres", <<>>)

\* C7 witness: a finished run in which two different outcomes were collected
\* under the key of one book.
C7_Witness ==
    /\ orch.pc = "done"
    /\ \E i \in DOMAIN orch.book_infos :
          \E j \in ResultsFor(i) : \E k \in ResultsFor(i) :
              j < k /\ orch.all_results[j] # orch.all_results[k]


\* C6: merge_enriched_data returns exactly one BookAnalytics per entry of
\* original_books, in the same order; a book with no stored result or a
\* failed result carries empty final_genres and genre_enrichment_success
\* False, and so does a book whose merge raised, none being omitted.
C6_MergeKeepsEveryBook ==
    merge.enhanced_books # Pending =>
        /\ Len(merge.enhanced_books[1]) = Len(merge.original_books)
        /\ \A i \in DOMAIN merge.original_books :
              LET original_book == merge.original_books[i]
                  book == merge.enhanced_books[1][i]
                  enriched_result ==
                      Get(merge.enriched_results_map, BookKey(original_book), EmptyDict)
              IN  /\ book.title = original_book.title
                  /\ book.author = original_book.author
                  /\ (Get(enriched_result, "statusCode", 0) # 200 \/ MergeRaises(original_book))
                        => (book.final_genres = <<>> /\ ~book.genre_enrichment_success)

\* The status and the percentage a status read of the job returns.
JobStatus == IF s3.status = Pending THEN "" ELSE Get(s3.status[1], "status", "")

JobPercent ==
    IF s3.status = Pending THEN 0
    ELSE Get(Get(s3.status[1], "progress", EmptyDict), "percent_complete", 0)

\* C8: job progress is monotonic: the percentage in the job's status record
\* never decreases from one status read to the next, whatever status writes
\* (completion, timeout handling, aggregation error) happen in between.
C8_ProgressMonotonic == [][JobPercent' >= JobPercent]_vars

\* C9: terminal job states are absorbing: once the persisted status is
\* complete or error, no step of any aggregator invocation changes it.
C9_TerminalAbsorbing ==
    [][(JobStatus \in {"complete", "error"}) => (JobStatus' = JobStatus)]_vars

\* Both invocations have returned, they were S3 completion events or an S3
\* event and the safety trigger, and the job was handed over with a status
\* record, a result stored for every book and books that all merge.
TwoAggregationsOfACompleteJob ==
    /\ hist.status # Pending
    /\ hist.original_books # <<>>
    /\ hist.all_stored
    /\ \A i \in DOMAIN hist.original_books : ~MergeRaises(hist.original_books[i])
    /\ \A k \in DOMAIN inv :
          inv[k].pc = "done" /\ inv[k].kind \in {"s3_event", "safety_trigger"}
    /\ \E k \in DOMAIN inv : inv[k].kind = "s3_event"

\* C10: after two aggregator invocations on a job whose results are all
\* present, in whatever interleaving, the job's status is complete and
\* data/{job}.json holds every original book.
C10_ConcurrentAggregationCompletes ==
    TwoAggregationsOfACompleteJob =>
        /\ JobStatus = "complete"
        /\ s3.data # Pending
        /\ Len(s3.data[1]) = Len(hist.original_books)
        /\ \A i \in DOMAIN hist.original_books :
              /\ s3.data[1][i].title = hist.original_books[i].title
              /\ s3.data[1][i].author = hist.original_books[i].author


\* The one invocation was the safety trigger and has returned.
SafetyRunDone == inv[1].pc = "done" /\ inv[1].kind = "safety_trigger"

\* The job's last activity when the run began: the status record's
\* last_updated, or LastModified of original_books.json without a record.
LastActivity ==
    IF hist.status = Pending THEN 0 ELSE hist.status[1].last_updated

WasTerminal ==
    hist.status # Pending /\ hist.status[1].status \in {"complete", "error"}

\* C11: after one run of handle_timeout_safety_check, a job that was
\* non-terminal and whose last activity was more than timeout_minutes old
\* when the run began has status complete or error; a job that was terminal,
\* or whose last activity is still within the threshold when the run ends,
\* has its status record, original_books.json, enriched/ objects and absent
\* data file exactly as they were.
C11_SafetyCheckSettlesStalledJobs ==
    SafetyRunDone =>
        /\ (~WasTerminal /\ hist.now - LastActivity > timeout_minutes)
              => JobStatus \in {"complete", "error"}
        /\ (WasTerminal \/ now - LastActivity <= timeout_minutes)
              => s3 = [status |-> hist.status,
                       original_books |->
                           Some([Body |-> hist.original_books, LastModified |-> 0]),
                       enriched |-> hist.enriched,
                       data |-> Pending]

\* C11 witness: the safety run found a stalled job in progress, aggregated
\* it and left it complete.
C11_Witness ==
    /\ SafetyRunDone
    /\ ~WasTerminal
    /\ hist.now - LastActivity > timeout_minutes
    /\ JobStatus = "complete"
    /\ s3.data # Pending

\* A result stored under enriched/ when the run began that the book
\* processor reported as a success.
UsableResultExists ==
    \E key \in DOMAIN hist.enriched :
        Get(hist.enriched[key].enriched_result, "statusCode", 0) = 200

\* C12: a stalled job force-aggregated by the safety run ends complete if at
\* least one usable enriched result was stored for it and ends error if none
\* was.
C12_TimeoutCompleteIffUsableResult ==
    (SafetyRunDone /\ ~WasTerminal /\ hist.now - LastActivity > timeout_minutes)
        => /\ UsableResultExists => JobStatus = "complete"
           /\ ~UsableResultExists => JobStatus = "error"

\* C13: a job whose CSV yields zero books is job-fatal: process_csv_pipeline
\* ends with job-level status error, not with status complete and an empty
\* output.
C13_EmptyJobIsFatal ==
    (orch.pc = "done" /\ orch.book_infos = <<>>) =>
        Get(orch.result[1], "status", "") = "error"

\* Every invocation of the run failed: invoke raised, the payload was
\* unparsable or carried a Lambda-level errorMessage (a timeout).
EveryInvocationFailed ==
    \A i \in DOMAIN orch.book_infos : InvocationFailed(orch.outcomes[i][1])

\* C14: for a job of N >= 1 books whose invocations all fail, the
\* orchestrator returns status complete, has dispatched every chunk, and its
\* dashboard has exactly N entries, in book order, each with
\* genre_enrichment_success False and empty final_genres.
C14_AllFailedJobStillCompletes ==
    (orch.pc = "done" /\ orch.book_infos # <<>> /\ EveryInvocationFailed) =>
        /\ Get(orch.result[1], "status", "") = "complete"
        /\ orch.chunk_index = TotalChunks(Len(orch.book_infos), orch.chunk_size)
        /\ orch.launched = DOMAIN orch.book_infos
        /\ Len(orch.dashboard[1].books) = Len(orch.book_infos)
        /\ orch.dashboard[1].metadata.failed_enrichments = Len(orch.book_infos)
        /\ \A i \in DOMAIN orch.book_infos :
              /\ orch.dashboard[1].books[i].title = orch.book_infos[i].title
              /\ orch.dashboard[1].books[i].genre_enrichment_success = FALSE
              /\ orch.dashboard[1].books[i].final_genres = <<>>

\* C14 witness: a run of several chunks has finished in which every
\* invocation failed.
C14_Witness ==
    /\ orch.pc = "done"
    /\ orch.chunk_index >= 2
    /\ EveryInvocationFailed
    /\ Len(orch.dashboard[1].books) >= 2

\* C15: once a chunk has completed and while the job is running, a status
\* read returns the job's snapshot with status processing and a
\* processed_books count equal to the number of books of the chunks
\* finished so far.
C15_SnapshotAfterEachChunk ==
    (orch.pc \in {"loop", "gather"} /\ orch.chunk_index >= 1) =>
        LET read == get_processing_status(orch.job_status)
        IN  /\ read.statusCode = 200
            /\ Get(read.body, "status", "") = "processing"
            /\ Get(Get(read.body, "progress", EmptyDict), "processed_books", 0)
                   = Len(orch.all_results)

SourceGaveNothing(f) == f[1].event # "data" \/ f[1].result.value.genres = <<>>

\* the fetch came back with at least one label
SourceGaveLabel(f) == f[1].event = "data" /\ f[1].result.value.genres # <<>>

\* the fetch came back with at least one label that the normalizer keeps
SourceGaveKeptLabel(f) ==
    /\ f[1].event = "data"
    /\ \E k \in DOMAIN f[1].result.value.genres :
          MergeStep({}, f[1].result.value.genres[k]) # {}

C18_FailuresIsolatedPerBookAndSource ==
    /\ \A i \in DOMAIN books : task[i] # "raised"
    /\ \A i \in DOMAIN books :
          task[i] = "done" =>
              LET g == enricher.fetches[i].google[1]
                  o == enricher.fetches[i].openlib[1]
                  eb == enriched[i][1]
              IN  /\ g.event = "data" =>
                         eb.processed_google_genres = GoogleCategories(books[i])
                  /\ o.event = "data" =>
                         eb.processed_openlib_genres = OpenLibSubjects(books[i])
                  /\ eb.final_genres = merge_and_normalize(eb.processed_google_genres,
                                                           eb.processed_openlib_genres)
    /\ returned # Pending => Len(returned[1]) = Len(books)

\* C18 witness: the batch has returned; for one book the Google fetch raised
\* and Open Library's labels were merged, for another the Open Library fetch
\* timed out and Google's labels were merged.
C18_Witness ==
    /\ returned # Pending
    /\ \E i \in DOMAIN books :
          /\ enricher.fetches[i].google[1].event = "exception"
          /\ enricher.fetches[i].openlib[1].event = "data"
          /\ returned[1][i].final_genres # <<>>
    /\ \E i \in DOMAIN books :
          /\ enricher.fetches[i].openlib[1].event = "timeout"
          /\ enricher.fetches[i].google[1].event = "data"
          /\ returned[1][i].final_genres # <<>>

\* the books between acquiring and releasing the semaphore
InFlight == {i \in DOMAIN books : task[i] = "running"}

\* C19: at every moment at most max_concurrent books are in flight and the
\* free slots plus the books in flight make max_concurrent (one slot each);
\* a fetch comes back and the merge happens only for a book that holds its
\* slot, which is taken once before the fetches and released once with the
\* merge; and every submitted book eventually gets a slot.
C19_OneSlotPerBookInFlight ==
    /\ [](/\ Cardinality(InFlight) <= enricher.max_concurrent
          /\ sem + Cardinality(InFlight) = enricher.max_concurrent
          /\ \A i \in DOMAIN books :
                /\ task[i] = "waiting" => enricher.fetches[i] = NoFetches
                /\ enriched[i] # Pending <=> task[i] = "done")
    /\ [][\A i \in DOMAIN books :
             /\ enricher.fetches[i] # enricher'.fetches[i] =>
                    task[i] = "running" /\ task'[i] = "running" /\ sem' = sem
             /\ enriched[i] # enriched'[i] =>
                    task[i] = "running" /\ task'[i] = "done" /\ sem' = sem + 1
             /\ (task[i] = "waiting" /\ task'[i] # "waiting") =>
                    sem > 0 /\ task'[i] = "running" /\ sem' = sem - 1]_vars
    /\ \A i \in 1..MaxBatch : <>(i \in DOMAIN books => task[i] # "waiting")

\* C19 witness: with max_concurrent = 1 the first book is done, the second
\* holds the only slot with one fetch back and the other still out.
C19_Witness ==
    /\ enricher.max_concurrent = 1
    /\ Len(books) = 2
    /\ task[1] = "done"
    /\ task[2] = "running"
    /\ sem = 0
    /\ enricher.fetches[2].openlib # Pending
    /\ enricher.fetches[2].google = Pending

\* C20: any two successive returns from wait() on the shared limiter are at
\* least min_interval apart.
C20_SuccessiveReturnsSpaced ==
    \A k \in 1..(Len(limiter.returns) - 1) :
        limiter.returns[k + 1] - limiter.returns[k] >= limiter.min_interval

\* the requests of a call's log, in order
Requests(log) == SelectSeq(log, LAMBDA e : e.op = "request")

IsClientError(e) ==
    /\ e.op = "request"
    /\ e.response.kind = "status"
    /\ 400 <= e.response.status_code /\ e.response.status_code < 500

\* C21: a 4xx response ends APICaller.get at once with (False, status, None):
\* no request and no backoff sleep follows it, and when the first response
\* is a 4xx the call has made exactly one request and never slept to back off.
C21_ClientErrorIsPermanent ==
    /\ \A k \in DOMAIN call.log :
          IsClientError(call.log[k]) =>
              /\ k = Len(call.log)
              /\ call.pc = "returned"
              /\ call.result = Some(<<FALSE, call.log[k].response.status_code, None>>)
    /\ (Requests(call.log) # <<>> /\ IsClientError(Requests(call.log)[1])) =>
          /\ Len(Requests(call.log)) = 1
          /\ \A k \in DOMAIN call.log : call.log[k].op # "sleep"

\* C21 witness: a call allowed several attempts has returned after a single
\* request that was answered 404.
C21_Witness ==
    /\ call.pc = "returned"
    /\ call.max_retries >= 2
    /\ Len(Requests(call.log)) = 1
    /\ IsClientError(call.log[Len(call.log)])
    /\ call.result = Some(<<FALSE, 404, None>>)

IsTransient(e) ==
    /\ e.op = "request"
    /\ \/ e.response.kind \in {"timeout", "error"}
       \/ e.response.kind = "status" /\ e.response.status_code >= 500

\* C22: whatever the responses, APICaller.get never raises; a request is
\* followed by another attempt only if it was a 5xx, a timeout or a
\* transport error; every request comes right after a pass through the rate
\* limiter; there are at most max_retries requests; with the last of them
\* the call returns; and a call that returns without
\* data returns (False, status of the last response or 0, None).
C22_BoundedRetriesOnTransientFailures ==
    /\ call.pc # "raised"
    /\ \A k \in DOMAIN call.log :
          call.log[k].op = "request" =>
              /\ k > 1 /\ call.log[k - 1].op = "wait"
              /\ k < Len(call.log) => IsTransient(call.log[k])
    /\ Len(Requests(call.log)) <= call.max_retries
    /\ (Requests(call.log) # <<>> /\ Len(Requests(call.log)) = call.max_retries) =>
          call.pc = "returned"
    /\ call.pc = "returned" =>
          LET last == IF call.log = <<>> THEN [kind |-> "none"]
                      ELSE call.log[Len(call.log)].response
          IN  \/ call.result = Some(<<TRUE, 200, JsonData>>)
              \/ call.result = Some(<<FALSE,
                                      IF last.kind = "status" THEN last.status_code ELSE 0,
                                      None>>)

\* C22 witness: a call has used all of its three attempts on a 503, a
\* timeout and a transport error and has returned (False, 0, None).
C22_Witness ==
    /\ call.pc = "returned"
    /\ call.max_retries = MaxRetries
    /\ Len(Requests(call.log)) = MaxRetries
    /\ \E k \in DOMAIN call.log : call.log[k].op = "request" /\ call.log[k].response.kind = "timeout"
    /\ \E k \in DOMAIN call.log :
          /\ call.log[k].op = "request"
          /\ call.log[k].response.kind = "status"
          /\ call.log[k].response.status_code = 503
    /\ call.log[Len(call.log)].response.kind = "error"
    /\ call.result = Some(<<FALSE, 0, None>>)

\* the queries the secondary adapters are to try, in order: isbn13, then
\* isbn if present and distinct, then title and author
QueryPlan(book) ==
    LET candidates ==
            <<[query |-> IsbnQuery(book.isbn13), tried |-> book.isbn13 # <<>>],
              [query |-> IsbnQuery(book.isbn),
               tried |-> book.isbn # <<>> /\ book.isbn # book.isbn13],
              [query |-> TitleAuthorQuery(book), tried |-> TRUE]>>
        plan == SelectSeq(candidates, LAMBDA c : c.tried)
    IN  [k \in DOMAIN plan |-> plan[k].query]

\* the queries issued so far
Issued(log) == [k \in DOMAIN log |-> log[k].query]

\* C23: fetch_google_data issues its queries in the order isbn13, isbn (if
\* present and different), title+author; only the last query issued can have
\* returned items; the call returns that response; and it returns None only
\* after every query of the plan was issued and none returned items.
C23_QueriesInPriorityOrderUntilFirstHit ==
    call.fn = "fetch_google_data" =>
        /\ Len(call.log) <= Len(QueryPlan(call.book))
        /\ Issued(call.log) = SubSeq(QueryPlan(call.book), 1, Len(call.log))
        /\ \A k \in DOMAIN call.log : k < Len(call.log) => ~HasItems(call.log[k].got)
        /\ call.pc = "returned" =>
              IF call.log # <<>> /\ HasItems(call.log[Len(call.log)].got)
              THEN call.result = Some(Dict(call.log[Len(call.log)].got.data))
              ELSE /\ call.result = Some(NoDict)
                   /\ Issued(call.log) = QueryPlan(call.book)

\* C23 witness: for a book with isbn13 and a different isbn the first
\* query failed, the second returned zero items and the third returned
\* items, which is what the call returned.
C23_Witness ==
    /\ call.fn = "fetch_google_data"
    /\ call.pc = "returned"
    /\ call.book = BookOne
    /\ Len(call.log) = 3
    /\ ~call.log[1].got.success
    /\ call.log[2].got.success
    /\ HasItems(call.log[3].got)
    /\ call.result = Some(Dict([totalItems |-> 1]))

\* C24: when the async Google Books adapter reports no data for a book that
\* has an isbn13, it has also queried by isbn (if present and distinct) and
\* by title and author.
C24_AsyncAdapterFallsBackToOtherIdentifiers ==
    (/\ call.fn = "fetch_google_data_async"
     /\ call.pc = "returned"
     /\ call.book.isbn13 # <<>>
     /\ call.result = Some(NoDict)) =>
        Issued(call.log) = QueryPlan(call.book)

\* the page answered 404, or answered 200 without a parseable genre
IsPermanent(e) ==
    /\ e.op = "request"
    /\ e.event.kind = "status"
    /\ \/ e.event.status = 404
       \/ e.event.status = 200 /\ e.event.genres = <<>>

C26_CorrelationKeysDoNotCollide ==
    call.dashboard # Pending =>
        /\ \A i \in DOMAIN call.original_books : \A j \in DOMAIN call.original_books :
              call.original_books[i] # call.original_books[j] =>
                  CorrelationKey(call.original_books[i])
                      # CorrelationKey(call.original_books[j])
        /\ \A i \in DOMAIN call.original_books :
              call.dashboard[1].books[i].final_genres
                  \in {<<>>, Get(call.results[1][i], "final_genres", <<>>)}

\* C27: normalizing the output of merge_and_normalize again, with an empty
\* second list, gives the same list.
C27_NormalizeIsIdempotent ==
    call.again # Pending => call.again = call.result

\* the set of labels of a list
Labels(list) == {list[k] : k \in DOMAIN list}

\* C28: merge_and_normalize(A, B) and merge_and_normalize(B, A) hold the same
\* set of labels.
C28_NormalizeIsOrderIndependent ==
    (call.result # Pending /\ call.swapped # Pending) =>
        Labels(call.result[1]) = Labels(call.swapped[1])

\* C29: no label of the output of merge_and_normalize ends with "century".
C29_NoLabelEndsWithCentury ==
    call.result # Pending =>
        \A k \in DOMAIN call.result[1] : ~EndsWith(call.result[1][k], Tail(CenturySuffix))

\* C30: no label of the output of merge_and_normalize is empty, shorter than
\* two characters or purely numeric, and none begins or ends with whitespace.
C30_NoShortNumericOrPaddedLabel ==
    call.result # Pending =>
        \A k \in DOMAIN call.result[1] :
            LET label == call.result[1][k]
            IN  /\ Len(label) >= 2
                /\ ~IsDigit(label)
                /\ label[1] \notin WhiteChars
                /\ label[Len(label)] \notin WhiteChars

\* the cleaned labels of a list that pass the filters of merge_and_normalize,
\* in the order of the list
RECURSIVE CleanedLabels(_)
CleanedLabels(all_genres) ==
    IF all_genres = <<>> THEN <<>>
    ELSE LET clean_genre == RemovePrefixes(Strip(Head(all_genres)), 1)
             kept == /\ Strip(Head(all_genres)) # <<>>
                     /\ Len(clean_genre) >= 2
                     /\ ~IsDigit(clean_genre)
                     /\ ~EndsWith(clean_genre, CenturySuffix)
         IN  (IF kept THEN <<clean_genre>> ELSE <<>>) \o CleanedLabels(Tail(all_genres))

\* the rendering kept for a group of labels equal ignoring case, given in
\* first-seen order: the first one, unless it is not title case and a later
\* one is, then the first title-case one
KeptRendering(group) ==
    IF IsTitle(group[1]) \/ ~\E k \in DOMAIN group : IsTitle(group[k])
    THEN group[1]
    ELSE group[CHOOSE k \in DOMAIN group :
                   IsTitle(group[k]) /\ \A j \in 1..(k - 1) : ~IsTitle(group[j])]

\* C31: the output of merge_and_normalize holds no two labels equal ignoring
\* case; every group of cleaned labels equal ignoring case is represented by
\* its title-case rendering when a compared pair has exactly one, otherwise
\* by the first-seen rendering in the order first list, second list; and the
\* output is sorted by code point.
C31_CaseInsensitiveDedupKeepsTitleCase ==
    call.result # Pending =>
        LET out == call.result[1]
            cleaned == CleanedLabels(call.google_genres \o call.openlib_genres)
            Group(label) == SelectSeq(cleaned, LAMBDA c : Lower(c) = Lower(label))
        IN  /\ \A i, j \in DOMAIN out : Lower(out[i]) = Lower(out[j]) => i = j
            /\ \A i, j \in DOMAIN out : i < j => StrLess(out[i], out[j])
            /\ \A i \in DOMAIN out :
                  Group(out[i]) # <<>> /\ out[i] = KeptRendering(Group(out[i]))
            /\ \A k \in DOMAIN cleaned :
                  \E i \in DOMAIN out : Lower(out[i]) = Lower(cleaned[k])

\* a lower-case rendering was seen before the title-case one, and an all-caps
\* one before a lower-case one
C31_Witness ==
    /\ call # <<>>
    /\ call.fn = "merge_and_normalize"
    /\ call.google_genres = <<fi, Fi>>
    /\ call.openlib_genres = << <<"S", "F">> >>
    /\ call.result = Some(<<Fi, <<"S", "F">> >>)

\* C32: after each raw label the kept set holds at most one label of each
\* case-insensitive class, so the rendering found by the lookup is the same
\* whatever the iteration order of the set, and every run on the same two
\* lists returns the same list.
C32_NormalizeIsDeterministic ==
    (call # <<>> /\ call.fn = "merge_and_normalize_loop") =>
        /\ \A e, f \in call.normalized_genres : Lower(e) = Lower(f) => e = f
        /\ call.result # Pending =>
              call.result[1] = merge_and_normalize(call.google_genres, call.openlib_genres)

\* a run that replaced a kept rendering by the title-case one and returned
C32_Witness ==
    /\ call # <<>>
    /\ call.fn = "merge_and_normalize_loop"
    /\ call.google_genres = <<fi, Fi>>
    /\ call.openlib_genres = <<Sf>>
    /\ call.result = Some(<<Fi, Sf>>)

\* the invocation for book i raised or was answered with an errorMessage
WorkerFailed(outcome) ==
    \/ outcome.kind # "payload"
    \/ "errorMessage" \in DOMAIN outcome.payload

\* C33: _enrich_with_lambda_swarm returns one element per input book, element
\* i carrying books[i] as input_info; a book whose invocation raised or was
\* answered with an errorMessage has empty final_genres, and every other
\* book has the genres of its own worker's answer, whatever happened to the
\* rest of the batch.
C33_SwarmKeepsEveryBookInPlace ==
    (call # <<>> /\ call.fn = "_enrich_with_lambda_swarm" /\ call.enriched_books # Pending) =>
        LET out == call.enriched_books[1]
        IN  /\ Len(out) = Len(call.books)
            /\ \A i \in DOMAIN call.books :
                  /\ out[i].input_info = call.books[i]
                  /\ WorkerFailed(call.outcomes[i][1]) => out[i].final_genres = <<>>
                  /\ ~WorkerFailed(call.outcomes[i][1]) =>
                        out[i].final_genres =
                            Get(call.outcomes[i][1].payload, "final_genres", <<>>)

\* the first book's invocation raised and the second book kept its genres
C33_Witness ==
    /\ call # <<>>
    /\ call.fn = "_enrich_with_lambda_swarm"
    /\ call.enriched_books # Pending
    /\ Len(call.books) = 2
    /\ call.outcomes[1][1].kind = "raise"
    /\ ~WorkerFailed(call.outcomes[2][1])
    /\ call.enriched_books[1][1].final_genres = <<>>
    /\ call.enriched_books[1][2].final_genres # <<>>

\* C38: every answer of lambda_worker.lambda_handler to an event carrying a
\* book is an enrichment response with final_genres and processing_log, not
\* an errorMessage dict.
C38_WorkerAnswersWithEnrichment ==
    (call # <<>> /\ call.fn = "_enrich_with_lambda_swarm") =>
        \A i \in DOMAIN call.books :
            (/\ call.outcomes[i] # Pending
             /\ call.outcomes[i][1].kind = "payload"
             /\ call.outcomes[i][1].worker = "lambda_worker") =>
                /\ "errorMessage" \notin DOMAIN call.outcomes[i][1].payload
                /\ "final_genres" \in DOMAIN call.outcomes[i][1].payload
                /\ "processing_log" \in DOMAIN call.outcomes[i][1].payload

\* the chunk of the book at position i of book_infos, counted from 0
ChunkOf(i) == (i - 1) \div orch.chunk_size

\* C34: chunks are dispatched one after another. An outcome comes only from
\* a launched invocation; when an invocation of a chunk is launched every
\* member of that chunk is launched, before any of their outcomes is there
\* to collect; and an invocation of a later chunk is launched only when every
\* outcome of the earlier chunks has come back and has been collected into
\* all_results.
C34_ChunksDispatchedOneAfterAnother ==
    orch.pc # "idle" =>
        LET n == Len(orch.book_infos)
        IN  /\ \A i \in DOMAIN orch.book_infos :
                  orch.outcomes[i] # Pending => i \in orch.launched
            /\ \A i \in orch.launched :
                  /\ ChunkIndices(ChunkOf(i), orch.chunk_size, n) \subseteq orch.launched
                  /\ ChunkOf(i) <= orch.chunk_index
                  /\ \A j \in DOMAIN orch.book_infos :
                        ChunkOf(j) < ChunkOf(i) =>
                            /\ orch.outcomes[j] # Pending
                            /\ Len(orch.all_results) >= j

\* the second chunk is in flight after the first one was collected
C34_Witness ==
    /\ orch.pc = "gather"
    /\ orch.chunk_index = 1
    /\ orch.chunk_size = 2
    /\ Len(orch.book_infos) = 3
    /\ orch.launched = {1, 2, 3}
    /\ Len(orch.all_results) = 2
    /\ orch.outcomes[3] = Pending

\* the job is one an event can find ready: its status record says processing
\* and original_books.json is there
JobInProgress ==
    /\ hist.status # Pending
    /\ hist.status[1].status = "processing"
    /\ hist.original_stored

\* every book of the job has had its result stored at least once
EveryResultStored ==
    \A i \in DOMAIN hist.original_books : hist.deliveries[i] >= 1

\* C35: an S3 completion event or the scheduled check goes on to the
\* aggregation only when the status record exists with status processing,
\* original_books.json exists and the number of stored enriched results is
\* at least total_books > 0, and until then it writes nothing; and the S3
\* event that comes after the last expected result of a processing job has
\* been stored does not return without the aggregation having run.
C35_EventStartsAggregationIffReady ==
    /\ [][\A k \in DOMAIN inv :
             ((inv[k].pc = "ready_list" /\ inv'[k].pc = "load_original") =>
                 (/\ s3.status # Pending
                  /\ Get(s3.status[1], "status", "") = "processing"
                  /\ s3.original_books # Pending
                  /\ Cardinality(DOMAIN s3.enriched)
                         >= Get(Get(s3.status[1], "progress", EmptyDict), "total_books", 0)
                  /\ Get(Get(s3.status[1], "progress", EmptyDict), "total_books", 0) > 0))
             /\ ((inv[k].pc \in {"list_jobs", "ready_status", "ready_head", "ready_list"}
                  /\ inv'[k] # inv[k]) => s3' = s3)]_vars
    /\ [](\A k \in DOMAIN inv :
             (/\ inv[k].kind = "s3_event"
              /\ inv[k].pc = "done"
              /\ JobInProgress
              /\ hist.original_books # <<>>
              /\ EveryResultStored)
                 => Get(s3.status[1], "status", "") # "processing")

\* C37: the key of a stored result depends on the job and the book only: a
\* book handled again overwrites its earlier result, two different books of
\* a job that have both been handled are stored under different keys, and
\* when every book has been handled the number of stored results equals
\* total_books.
C37_OneStoredResultPerBook ==
    inv[1].pc = "idle" =>
        LET handled == {i \in DOMAIN hist.original_books : hist.deliveries[i] >= 1}
        IN  /\ Cardinality(DOMAIN s3.enriched) <= Cardinality(handled)
            /\ \A i, j \in handled :
                  i # j => result_key(hist.original_books[i])
                               # result_key(hist.original_books[j])
            /\ EveryResultStored =>
                  Cardinality(DOMAIN s3.enriched) = Len(hist.original_books)

\* C36: in the summary returned by process_csv_pipeline successful_books and
\* failed_books add up to the number of collected outcomes, a book is
\* counted as successful only if its enrichment produced a non-empty
\* final_genres, and successful_books equals successful_enrichments of the
\* dashboard metadata written for the job.
C36_SummaryMatchesSuccessFlags ==
    orch.pc = "done" =>
        /\ orch.result[1].successful_books + orch.result[1].failed_books
               = Len(orch.all_results)
        /\ \A i \in DOMAIN orch.all_results :
              Get(orch.all_results[i], "success", TRUE) => EnrichedWithGenres(i)
        /\ orch.result[1].successful_books
               = orch.dashboard[1].metadata.successful_enrichments


====
